---- MODULE Spec2Model ----
(***************************************************************************)
(* Stage orchestrator of the document pipeline (docwriter): cycle          *)
(* accounting, the worker harness, and the write / review / verify /       *)
(* rewrite stage processors, modelled for one job.                         *)
(***************************************************************************)
EXTENDS Integers, Sequences, FiniteSets, TLC

VARIABLES
    queue,        \* messages held by the broker: [q, p, lock]
    running,      \* per worker: the message its handler is executing, or Idle
    draft,        \* the draft blob: sequence of section blocks (section ids)
    progress,     \* cycle_<k>/review_progress.json per cycle and agent
    styleJson,    \* cycle_<k>/style.json per cycle
    cohesionJson, \* cycle_<k>/cohesion.json per cycle
    contraJson,   \* cycle_<k>/contradictions.json per cycle
    failures,     \* number of handler failures so far
    expiries,     \* number of lock expiries so far
    malformed,    \* number of deviating collaborator (LLM, blob storage) answers so far
    sentCc,       \* history of the cycles_completed of the messages stages enqueued
    rewriteDone,  \* history: cycles_completed carried by each REWRITE_DONE event
    fresh,        \* the cycles of the job when it was submitted as a new job, else 0
    plan,         \* which plan the job carries: "chain" or "cyclic"
    writeLog,     \* history: the section ids the write stage processed, in order
    last,         \* history: what the handler invocation that just ended did
    arg,          \* input of the pure-function specifications
    res           \* result of the pure-function specifications

vars == <<queue, running, draft, progress, styleJson, cohesionJson,
          contraJson, failures, expiries, malformed, sentCc, rewriteDone, fresh,
          plan, writeLog, last, arg, res>>

pipeVars == <<queue, running, draft, progress, styleJson, cohesionJson,
              contraJson, failures, expiries, malformed, sentCc, rewriteDone, fresh,
              plan, writeLog, last>>

(***************************************************************************)
(* Bounds                                                                  *)
(***************************************************************************)
MaxCycles == 2
MaxFailures == 1
MaxExpiries == 1
MaxMalformed == 1

Min(a, b) == IF a < b THEN a ELSE b
Max(a, b) == IF a > b THEN a ELSE b

(***************************************************************************)
(* Payload values of the cycle fields.  A JSON value is modelled by its    *)
(* kind: a missing key, None, an empty string or list, a value int()       *)
(* rejects, or an integer.                                                  *)
(***************************************************************************)
MissingV == [k |-> "missing", v |-> 0]
NoneV == [k |-> "none", v |-> 0]
EmptyV == [k |-> "empty", v |-> 0]
JunkV == [k |-> "junk", v |-> 0]
IntV(n) == [k |-> "int", v |-> n]

_CYCLE_FIELDS == <<"cycles", "expected_cycles", "cycles_completed", "cycles_remaining">>

NoCycleFields ==
    [cycles |-> MissingV, expected_cycles |-> MissingV,
     cycles_completed |-> MissingV, cycles_remaining |-> MissingV]

\* coerce_int(value, default): int(value), or default on TypeError/ValueError
coerce_int(value, default) == IF value.k = "int" THEN value.v ELSE default

\* from_context without the max(1, .) and the clamp of completed
from_context_noclamp(c) ==
    LET requested == coerce_int(c.cycles,
                        IF c.expected_cycles.k = "missing" THEN 1
                        ELSE coerce_int(c.expected_cycles, 0))
        completed0 == coerce_int(c.cycles_completed, 0)
        hint == c.cycles_remaining
        remaining == Max(0, Min(requested - completed0, coerce_int(hint, 0)))
        completed == IF hint.k \in {"missing", "none"} THEN completed0
                     ELSE Min(requested, requested - remaining)
    IN  [requested |-> requested, completed |-> completed]

\* CycleState.from_context
from_context(c) ==
    LET requested == Max(1, coerce_int(c.cycles,
                        IF c.expected_cycles.k = "missing" THEN 1
                        ELSE coerce_int(c.expected_cycles, 0)))
        completed0 == Max(0, Min(requested, coerce_int(c.cycles_completed, 0)))
        hint == c.cycles_remaining
        remaining == Max(0, Min(requested - completed0, coerce_int(hint, 0)))
        completed == IF hint.k \in {"missing", "none"} THEN completed0
                     ELSE Min(requested, requested - remaining)
    IN  [requested |-> requested, completed |-> completed]

\* CycleState.remaining
Remaining(cs) == Max(0, cs.requested - cs.completed)

\* CycleState.exhausted
Exhausted(cs) == Remaining(cs) <= 0

\* CycleState.consume_rewrite
consume_rewrite(cs) ==
    IF Exhausted(cs) THEN cs
    ELSE [requested |-> cs.requested, completed |-> Min(cs.requested, cs.completed + 1)]

\* CycleState.apply: the four cycle fields written back into the payload
apply(cs, p) ==
    [p EXCEPT !.cycles = IntV(cs.requested),
              !.expected_cycles = IntV(cs.requested),
              !.cycles_completed = IntV(cs.completed),
              !.cycles_remaining = IntV(Remaining(cs))]

(***************************************************************************)
(* Cycle hydration from the status table.  An entity carries cycle fields  *)
(* at its top level, inside details and inside details.parsed_message.     *)
(***************************************************************************)
\* _merge_cycles that fills whatever the target's current value is
MergeField_overwrite(cur, src) ==
    IF src.k = "int" THEN src ELSE cur

\* _merge_cycles: fill a field only when the source value is an integer and
\* the target's current value is None (or missing), "" or []
MergeField(cur, src) ==
    IF src.k = "int" /\ cur.k \in {"missing", "none", "empty"} THEN src ELSE cur

_merge_cycles(target, source) ==
    [target EXCEPT
        !.cycles = MergeField(target.cycles, source.cycles),
        !.expected_cycles = MergeField(target.expected_cycles, source.expected_cycles),
        !.cycles_completed = MergeField(target.cycles_completed, source.cycles_completed),
        !.cycles_remaining = MergeField(target.cycles_remaining, source.cycles_remaining)]

CycleFieldsOf(p) ==
    [cycles |-> p.cycles, expected_cycles |-> p.expected_cycles,
     cycles_completed |-> p.cycles_completed, cycles_remaining |-> p.cycles_remaining]

\* _ingest inside hydrate: top level, then details, then details.parsed_message
Ingest(target, entity) ==
    _merge_cycles(_merge_cycles(_merge_cycles(target, entity.top), entity.details),
                  entity.parsed_message)

RECURSIVE HydrateHistory(_, _, _)
\* the loop over reversed(history): stop at the first entity that populates
HydrateHistory(target, history, i) ==
    IF i = 0 THEN target
    ELSE LET t == Ingest(target, history[i])
         IN  IF CycleFieldsOf(t) # CycleFieldsOf(target) THEN t
             ELSE HydrateHistory(target, history, i - 1)

\* CycleMetadataRepository.hydrate; table = [latest: <<>> or <<entity>>, history]
hydrate(target, table) ==
    LET t1 == IF table.latest = <<>> THEN target ELSE Ingest(target, table.latest[1])
    IN  IF CycleFieldsOf(t1) # CycleFieldsOf(target) THEN t1
        ELSE HydrateHistory(target, table.history, Len(table.history))

\* ensure_cycle_state: hydrate, build the CycleState, apply it
CycleStateAtEntry(p, table) == from_context(hydrate(p, table))

ensure_cycle_state(p, table) ==
    LET h == hydrate(p, table)
    IN  apply(from_context(h), h)

(***************************************************************************)
(* The plan: outline sections and their dependencies                       *)
(***************************************************************************)
Outline == <<"s2", "s1", "s3">>
Sections == {Outline[i] : i \in 1..Len(Outline)}
ChainDependencies == [s \in Sections |->
                        CASE s = "s1" -> {}
                          [] s = "s2" -> {"s1"}
                          [] s = "s3" -> {"s2"}]
\* the same outline with s1 made to depend on s3
CyclicDependencies == [ChainDependencies EXCEPT !["s1"] = {"s3"}]
Plans == {"chain", "cyclic"}
DependenciesOf == [pl \in Plans |->
                     IF pl = "cyclic" THEN CyclicDependencies ELSE ChainDependencies]
Dependencies == DependenciesOf[plan]
Unknown == "zz"                      \* a section id that is not in the outline
SecIds == Sections \cup {Unknown}

\* plan["outline"]: the sections with their id and dependencies
OutlineOf(pl) ==
    [i \in 1..Len(Outline) |->
        [id |-> Outline[i], dependencies |-> DependenciesOf[pl][Outline[i]]]]
PlanOutline == OutlineOf(plan)

Range(seq) == {seq[i] : i \in 1..Len(seq)}
IndexOf(seq, x) == CHOOSE i \in 1..Len(seq) : seq[i] = x
SelectNotIn(seq, S) == SelectSeq(seq, LAMBDA x : x \notin S)
SelectIn(seq, S) == SelectSeq(seq, LAMBDA x : x \in S)
\* a slice that takes everything
Take_all(seq, n) == seq
\* seq[:n]
Take(seq, n) == SubSeq(seq, 1, Min(n, Len(seq)))

RECURSIVE FirstOccurrences(_, _)
FirstOccurrences(d, seen) ==
    IF d = <<>> THEN <<>>
    ELSE IF Head(d) \in seen THEN FirstOccurrences(Tail(d), seen)
         ELSE <<Head(d)>> \o FirstOccurrences(Tail(d), seen \cup {Head(d)})

\* build_dependency_graph: the nodes are the outline ids in first-seen
\* order; an edge dep -> sid is kept only when both ends are nodes, so
\* rev[n] is the set of the in-outline dependencies of n
build_dependency_graph(outline) ==
    LET nodes == FirstOccurrences([i \in 1..Len(outline) |-> outline[i].id], {})
    IN  [nodes |-> nodes,
         rev |-> [n \in Range(nodes) |->
                    UNION {outline[i].dependencies :
                             i \in {j \in 1..Len(outline) : outline[j].id = n}}
                    \cap Range(nodes)]]

\* _section_sort_key: the number in the id ("s1" < "s2" < "s10"), then the
\* insertion index
SectionNumber == [s \in Sections |->
                    CASE s = "s1" -> 1 [] s = "s2" -> 2 [] s = "s3" -> 3]
_section_sort_key(section_id, fallback_index) == <<SectionNumber[section_id], fallback_index>>

\* DependencyGraph._ordering_key
_ordering_key(g, section_id) == _section_sort_key(section_id, IndexOf(g.nodes, section_id))

KeyLess(g, a, b) ==
    LET ka == _ordering_key(g, a)
        kb == _ordering_key(g, b)
    IN  ka[1] < kb[1] \/ (ka[1] = kb[1] /\ ka[2] < kb[2])

\* the in-degree count that forgets an edge from a node to itself
ZeroIndegree_noself(g, rest, emitted) ==
    {n \in rest : (g.rev[n] \ {n}) \subseteq emitted}

\* the nodes of rest whose in-degree has dropped to zero: every predecessor
\* has been emitted
ZeroIndegree(g, rest, emitted) == {n \in rest : g.rev[n] \subseteq emitted}

RECURSIVE Kahn(_, _, _)
\* the loop of DependencyGraph.topological_order: pop the smallest key among
\* the nodes whose predecessors have all been emitted
Kahn(g, order, rest) ==
    LET ready == ZeroIndegree(g, rest, Range(order))
    IN  IF ready = {} THEN order
        ELSE LET u == CHOOSE n \in ready : \A m \in ready \ {n} : KeyLess(g, n, m)
             IN  Kahn(g, Append(order, u), rest \ {u})

\* DependencyGraph.topological_order: the order, or the ValueError
\* "Cycle detected in section dependencies"
GraphOrder(g) ==
    LET order == Kahn(g, <<>>, Range(g.nodes))
    IN  [ok |-> Len(order) = Len(g.nodes), order |-> order]

RECURSIVE SortByKey(_, _)
\* list.sort(key=self._ordering_key)
SortByKey(g, S) ==
    IF S = {} THEN <<>>
    ELSE LET u == CHOOSE n \in S : \A m \in S \ {n} : KeyLess(g, n, m)
         IN  <<u>> \o SortByKey(g, S \ {u})

RECURSIVE LayersFrom(_, _, _)
\* the loop of DependencyGraph.layers: emit the frontier, then the nodes
\* whose in-degree dropped to zero while the frontier was processed
LayersFrom(g, seen, frontier) ==
    IF frontier = {} THEN [seen |-> seen, layers |-> <<>>]
    ELSE LET seen1 == seen \cup frontier
             rest == LayersFrom(g, seen1,
                                ZeroIndegree(g, Range(g.nodes) \ seen1, seen1))
         IN  [seen |-> rest.seen, layers |-> <<SortByKey(g, frontier)>> \o rest.layers]

\* DependencyGraph.layers: the layers, or the ValueError
layers(g) ==
    LET r == LayersFrom(g, {}, ZeroIndegree(g, Range(g.nodes), {}))
    IN  [ok |-> Cardinality(r.seen) = Len(g.nodes), layers |-> r.layers]

\* graph.topological_order() of the plan (the order emitted before the
\* error, when the plan has a cycle)
PlanOrders == [pl \in Plans |-> GraphOrder(build_dependency_graph(OutlineOf(pl)))]
topological_order == PlanOrders[plan].order
\* a cycle check that never reports
HasCycle_never == FALSE

HasCycle == ~PlanOrders[plan].ok

\* extract_sections: the ids of the section blocks found in the draft
extract_sections(d) == Range(d)

\* _ordered_section_ids
_ordered_section_ids(d) ==
    LET base == IF HasCycle THEN Outline ELSE topological_order
        order == SelectIn(base, extract_sections(d))
    IN  IF order = <<>> THEN FirstOccurrences(d, {}) ELSE order

(***************************************************************************)
(* Settings                                                                *)
(***************************************************************************)
write_batch_size == 2
review_batch_size == 2
review_max_prompt_tokens == 15000
SectionTokens == 400            \* estimated tokens of one section's markdown
StubTokens == 20                \* estimated tokens of one dependency stub

\* _build_batch_context: (estimated size of) the combined text, and the
\* dependency ids outside the batch in first-seen order
RECURSIVE BatchDeps(_, _, _)
BatchDeps(batch, i, acc) ==
    IF i > Len(batch) THEN acc
    ELSE LET deps == IF batch[i] \in Sections THEN Dependencies[batch[i]] ELSE {}
             new == SelectSeq(topological_order,
                        LAMBDA x : x \in deps /\ x \notin Range(batch) /\ x \notin Range(acc))
         IN  BatchDeps(batch, i + 1, acc \o new)

_build_batch_context(batch, d) ==
    LET dep_ids == BatchDeps(batch, 1, <<>>)
    IN  [dep_ids |-> dep_ids,
         tokens |-> StubTokens * Len(dep_ids)
                    + SectionTokens * Cardinality(Range(batch) \cap extract_sections(d))]

RECURSIVE PlanBatches(_, _, _, _)
\* the loop of _plan_review_batches over the remaining ids
PlanBatches(rem, current, batches, d) ==
    IF rem = <<>> THEN (IF current # <<>> THEN Append(batches, current) ELSE batches)
    ELSE LET sid == Head(rem)
             candidate == Append(current, sid)
             over_tokens == _build_batch_context(candidate, d).tokens > Max(1, review_max_prompt_tokens)
             over_size == Len(candidate) > Max(1, review_batch_size)
             flush == current # <<>> /\ (over_tokens \/ over_size)
             cur1 == IF flush THEN <<sid>> ELSE candidate
             b1 == IF flush THEN Append(batches, current) ELSE batches
         IN  IF Len(cur1) >= Max(1, review_batch_size)
             THEN PlanBatches(Tail(rem), <<>>, Append(b1, cur1), d)
             ELSE PlanBatches(Tail(rem), cur1, b1, d)

_plan_review_batches(ordered, completed, d) ==
    PlanBatches(SelectNotIn(ordered, completed), <<>>, <<>>, d)

(***************************************************************************)
(* Broker, workers and storage                                             *)
(***************************************************************************)
Workers == {"w1", "w2"}
Agents == {"general", "style", "cohesion", "summary"}
ReviewQueues == {"review_general", "review_style", "review_cohesion", "review_summary"}
HandledQueues == {"write", "verify", "rewrite"} \cup ReviewQueues
StartQueues == {"write", "review_general", "rewrite"}
Cycles == 1..MaxCycles

AgentOf(q) ==
    CASE q = "review_general" -> "general"
      [] q = "review_style" -> "style"
      [] q = "review_cohesion" -> "cohesion"
      [] q = "review_summary" -> "summary"

QueueOf(agent) ==
    CASE agent = "general" -> "review_general"
      [] agent = "style" -> "review_style"
      [] agent = "cohesion" -> "review_cohesion"
      [] agent = "summary" -> "review_summary"

\* the queue a review agent forwards to when it is done
NextQueue(agent) ==
    CASE agent = "general" -> "review_style"
      [] agent = "style" -> "review_cohesion"
      [] agent = "cohesion" -> "review_summary"
      [] agent = "summary" -> "verify"

\* a JSON artifact: whether the blob exists, the section ids of its entries,
\* and whether any entry lists an issue or a suggestion
NoBlob == [exists |-> FALSE, ids |-> {}, issues |-> FALSE]
Blob(ids) == [exists |-> TRUE, ids |-> ids, issues |-> FALSE]
ReviewBlob(ids, issues) == [exists |-> TRUE, ids |-> ids, issues |-> issues]

\* _init_review_progress: the per-agent shape of review_progress.json
_init_review_progress ==
    [a \in Agents |-> [sections_done |-> {}, done |-> FALSE, issues |-> FALSE]]

EmptyTable == [latest |-> <<>>, history |-> <<>>]
Entity(top, details) == [top |-> top, details |-> details, parsed_message |-> NoCycleFields]

\* what the status table may hold for the job when a stage starts
StatusTables ==
    {EmptyTable,
     [latest |-> <<Entity(NoCycleFields,
                     [cycles |-> MissingV, expected_cycles |-> IntV(MaxCycles),
                      cycles_completed |-> IntV(1), cycles_remaining |-> IntV(MaxCycles - 1)])>>,
      history |-> <<>>]}

NoFlags ==
    [has_contradictions |-> FALSE, style_issues |-> FALSE, cohesion_issues |-> FALSE,
     placeholder_sections |-> FALSE]

NoLast ==
    [stage |-> "none", ok |-> TRUE, agent |-> FALSE, puts |-> {}, sends |-> <<>>,
     flags |-> NoFlags,
     evs |-> <<>>, entry |-> [requested |-> 1, completed |-> 0],
     raw |-> NoCycleFields, batch |-> {}, order |-> <<>>, before |-> {}, after |-> {},
     requires |-> FALSE, complete |-> FALSE, settled |-> "none",
     affected |-> {}]

SendRec(q, p) ==
    [q |-> q, cycles |-> p.cycles.v, cycles_completed |-> p.cycles_completed.v,
     cycles_remaining |-> p.cycles_remaining.v,
     rewritten_sections |-> p.rewritten_sections,
     placeholder_sections |-> p.placeholder_sections,
     requires_rewrite |-> p.requires_rewrite]

Storage ==
    [draft |-> draft, progress |-> progress, styleJson |-> styleJson,
     cohesionJson |-> cohesionJson, contraJson |-> contraJson]

\* the result of one handler invocation: what it stored, sent and published
Outcome(st, ok, send, done, lst) ==
    [ok |-> ok, send |-> send, st |-> st, done |-> done, last |-> lst]

(***************************************************************************)
(* process_write                                                           *)
(***************************************************************************)
\* what the blob store may do to the stage: serve it, fail the read of the
\* existing draft, or fail the upload of the new one; the stage catches
\* both errors and goes on
StorageFaults == {"none", "get", "put"}

process_write(p, table, st, fault, sendOk) ==
    LET cs == CycleStateAtEntry(p, table)
        data == ensure_cycle_state(p, table)
        order == topological_order
        written == p.written_sections
        existing_body == IF fault = "get" THEN <<>> ELSE st.draft
        remaining == SelectNotIn(order, written)
        batch == Take(remaining, Max(1, write_batch_size))
        written1 == written \cup Range(batch)
        document_text == existing_body \o batch
        more == Cardinality(written1) < Len(order)
        payload == [data EXCEPT !.written_sections = IF more THEN written1 ELSE {}]
        target == IF more THEN "write" ELSE "review_general"
        lst == [NoLast EXCEPT
                  !.stage = "write", !.ok = sendOk, !.agent = batch # <<>>,
                  !.puts = IF fault = "put" THEN {} ELSE {"draft"},
                  !.entry = cs, !.raw = CycleFieldsOf(p),
                  !.batch = Range(batch), !.order = batch,
                  !.before = written, !.after = written1,
                  !.sends = IF sendOk THEN <<SendRec(target, payload)>> ELSE <<>>,
                  !.evs = IF more
                          THEN <<"WRITE_QUEUED">> \o (IF sendOk THEN <<"WRITE_IN_PROGRESS">> ELSE <<>>)
                          ELSE <<"REVIEW_QUEUED">> \o (IF sendOk THEN <<"WRITE_DONE">> ELSE <<>>)]
    IN  IF HasCycle
        THEN Outcome(st, FALSE, <<>>, <<>>,
                     [NoLast EXCEPT !.stage = "write", !.ok = FALSE, !.entry = cs,
                                    !.raw = CycleFieldsOf(p)])
        ELSE Outcome(IF fault = "put" THEN st ELSE [st EXCEPT !.draft = document_text],
                     sendOk,
                     IF sendOk THEN <<[q |-> target, p |-> payload]>> ELSE <<>>,
                     <<>>, lst)

(***************************************************************************)
(* The four review stages                                                  *)
(***************************************************************************)
\* _ensure_not_exhausted with the comparison weakened to >
_ensure_not_exhausted_strict(cs) == ~(cs.completed > cs.requested)

\* _ensure_not_exhausted: FALSE when the stage must short-circuit
_ensure_not_exhausted(cs) == ~(cs.completed >= cs.requested)

\* What a batch reviewer may answer, by what the stage reads from it: the
\* section ids of the usable entries, whether sections holds anything else
\* (entries without section_id, or a non-list value), and whether an entry
\* lists issues or suggestions.
Response(ids, extra) == [ids |-> ids, extra |-> extra, issues |-> FALSE]
AgentResponses(batch) ==
    {Response(Range(batch), FALSE),                        \* well formed, nothing to report
     [Response(Range(batch), FALSE) EXCEPT !.issues = TRUE], \* well formed, with issues
     Response({}, FALSE),                                  \* unparseable, or no sections list
     Response({}, TRUE),                                   \* entries lacking section_id
     Response({Unknown}, FALSE),                           \* entries for an unknown id
     Response({batch[Len(batch)]}, FALSE)}                 \* only the last batched section

\* the ids marked done after a batch: every returned section_id, and the
\* whole batch when the parse yielded no entries
MarkedDone(reviewed, batch, resp) ==
    reviewed \cup resp.ids
             \cup (IF resp.ids = {} /\ ~resp.extra THEN Range(batch) ELSE {})

ArtifactOf(agent) ==
    CASE agent = "general" -> "review.json"
      [] agent = "style" -> "style.json"
      [] agent = "cohesion" -> "cohesion.json"
      [] agent = "summary" -> "executive_summary.json"

\* store.put_text of the agent's combined artifact
PutArtifact(st, agent, cycle_idx, ids) ==
    CASE agent = "style" ->
            [st EXCEPT !.styleJson[cycle_idx] =
                            ReviewBlob(ids, st.progress[cycle_idx][agent].issues)]
      [] agent = "cohesion" ->
            [st EXCEPT !.cohesionJson[cycle_idx] =
                            ReviewBlob(ids, st.progress[cycle_idx][agent].issues)]
      [] OTHER -> st

\* the issues and suggestions accumulated by _accumulate_section_guidance;
\* only style.json and cohesion.json are read back by later stages
AccumulatedIssues(agent, st, cycle_idx, resp) ==
    agent \in {"style", "cohesion"} /\ (st.progress[cycle_idx][agent].issues \/ resp.issues)

\* the stage once the batch is reviewed: re-enqueue to the same queue while
\* ordered sections remain unreviewed, else store the artifact and finish
review_settle(agent, cs, data, raw, st, sendOk, ordered, reviewed, current, reviewed1, issues) ==
    LET cycle_idx == Min(cs.requested, cs.completed + 1)
        more == SelectNotIn(ordered, reviewed1) # <<>>
        target == IF more THEN QueueOf(agent) ELSE NextQueue(agent)
        st1 == [st EXCEPT !.progress[cycle_idx][agent] =
                              [sections_done |-> reviewed1, done |-> ~more,
                               issues |-> issues]]
    IN  Outcome(IF more THEN st1 ELSE PutArtifact(st1, agent, cycle_idx, reviewed1),
                sendOk,
                IF sendOk THEN <<[q |-> target, p |-> data]>> ELSE <<>>, <<>>,
                [NoLast EXCEPT
                    !.stage = QueueOf(agent), !.ok = sendOk, !.entry = cs, !.raw = raw,
                    !.agent = TRUE, !.batch = Range(current), !.order = current,
                    !.before = reviewed, !.after = reviewed1,
                    !.puts = IF more THEN {"review_progress.json"}
                             ELSE {ArtifactOf(agent), "review_progress.json"},
                    !.sends = IF sendOk THEN <<SendRec(target, data)>> ELSE <<>>,
                    !.evs = <<"REVIEW_START",
                              IF ~more /\ agent = "summary" THEN "VERIFY_QUEUED"
                              ELSE "REVIEW_QUEUED">>
                            \o (IF ~sendOk THEN <<>>
                                ELSE IF ~more /\ agent = "summary" THEN <<"REVIEW_DONE">>
                                ELSE <<"REVIEW_IN_PROGRESS">>)])

\* the stage when no batch is reviewed: the draft has no section blocks (one
\* whole-document review), or no section is left to batch
review_finish(agent, cs, data, raw, st, sendOk, sections, reviewed) ==
    LET cycle_idx == Min(cs.requested, cs.completed + 1)
        st1 == [st EXCEPT !.progress[cycle_idx][agent] =
                              [sections_done |-> reviewed, done |-> TRUE,
                               issues |-> st.progress[cycle_idx][agent].issues]]
        stored == sections = {} \/ agent # "general"
    IN  Outcome(IF stored
                THEN PutArtifact(st1, agent, cycle_idx, IF sections = {} THEN {} ELSE reviewed)
                ELSE st1,
                sendOk,
                IF sendOk THEN <<[q |-> NextQueue(agent), p |-> data]>> ELSE <<>>, <<>>,
                [NoLast EXCEPT
                    !.stage = QueueOf(agent), !.ok = sendOk, !.entry = cs, !.raw = raw,
                    !.agent = sections = {}, !.before = reviewed, !.after = reviewed,
                    !.puts = IF stored THEN {ArtifactOf(agent), "review_progress.json"}
                             ELSE {"review_progress.json"},
                    !.sends = IF sendOk THEN <<SendRec(NextQueue(agent), data)>> ELSE <<>>,
                    !.evs = <<"REVIEW_START",
                              IF agent = "summary" THEN "VERIFY_QUEUED" ELSE "REVIEW_QUEUED">>
                            \o (IF ~sendOk THEN <<>>
                                ELSE IF agent = "summary" THEN <<"REVIEW_DONE">>
                                ELSE <<"REVIEW_IN_PROGRESS">>)])

\* the stage when it does not review: the cycles are exhausted (to
\* diagram_prep), or the agent is already done in this cycle (forward)
review_skip(agent, cs, data, raw, st, sendOk, reviewed) ==
    LET exhausted == ~_ensure_not_exhausted(cs)
        target == IF exhausted THEN "diagram_prep" ELSE NextQueue(agent)
    IN  Outcome(st, sendOk,
                IF sendOk THEN <<[q |-> target, p |-> data]>> ELSE <<>>, <<>>,
                [NoLast EXCEPT
                    !.stage = QueueOf(agent), !.ok = sendOk, !.entry = cs, !.raw = raw,
                    !.before = reviewed, !.after = reviewed,
                    !.sends = IF sendOk THEN <<SendRec(target, data)>> ELSE <<>>,
                    !.evs = IF exhausted THEN <<"DIAGRAM_QUEUED">>
                            ELSE IF agent = "summary" THEN <<"VERIFY_QUEUED", "REVIEW_DONE">>
                            ELSE <<"REVIEW_QUEUED">>])

\* the body of a review stage after ensure_cycle_state
review_stage(agent, cs, data, raw, st, resp, sendOk, ordered, reviewed, batches) ==
    IF ~_ensure_not_exhausted(cs) \/ st.progress[Min(cs.requested, cs.completed + 1)][agent].done
    THEN review_skip(agent, cs, data, raw, st, sendOk, reviewed)
    ELSE IF extract_sections(st.draft) = {} \/ batches = <<>>
    THEN review_finish(agent, cs, data, raw, st, sendOk, extract_sections(st.draft), reviewed)
    ELSE review_settle(agent, cs, data, raw, st, sendOk, ordered, reviewed, batches[1],
                       MarkedDone(reviewed, batches[1], resp),
                       AccumulatedIssues(agent, st, Min(cs.requested, cs.completed + 1), resp))

\* the sections_done the agent has persisted for the cycle of the message
ReviewedAtEntry(agent, cs, st) ==
    st.progress[Min(cs.requested, cs.completed + 1)][agent].sections_done

\* the batches the stage plans at entry
BatchesAtEntry(agent, cs, st) ==
    _plan_review_batches(_ordered_section_ids(st.draft), ReviewedAtEntry(agent, cs, st),
                         st.draft)

\* process_review_general / _style / _cohesion / _summary
process_review(agent, p, table, st, resp, sendOk) ==
    review_stage(agent, CycleStateAtEntry(p, table), ensure_cycle_state(p, table),
                 CycleFieldsOf(p), st, resp, sendOk, _ordered_section_ids(st.draft),
                 ReviewedAtEntry(agent, CycleStateAtEntry(p, table), st),
                 BatchesAtEntry(agent, CycleStateAtEntry(p, table), st))

(***************************************************************************)
(* process_verify                                                          *)
(***************************************************************************)
\* parse_review_guidance on a stored review artifact: the guidance text is
\* never empty for a non-blank blob (it falls back to the JSON dump), and
\* the sections are every section_id found in it
GuidanceText(raw) ==
    IF ~raw.exists THEN FALSE
    ELSE LET lines == raw.issues \/ raw.ids # {}  \* issue texts, section titles
         IN  IF lines THEN TRUE
             ELSE TRUE                          \* json.dumps(parsed), never empty
GuidanceSections(raw) == IF raw.exists THEN raw.ids ELSE {}

\* what the verifier may return: whether the contradictions list is
\* non-empty, and the section ids its entries carry
Verification(any, ids) == [any |-> any, ids |-> ids]
VerifierResults ==
    {Verification(FALSE, {}), Verification(TRUE, {}),
     Verification(TRUE, {"s2"}), Verification(TRUE, {Unknown})}

\* what find_placeholder_sections may find in the written text
PlaceholderResults == {{}, {"s3"}}

\* needs_rewrite that looks at the contradictions only
NeedsRewrite_contradictions(flags) == flags.has_contradictions

\* needs_rewrite: bool(contradictions) or bool(style_guidance) or
\* bool(cohesion_guidance) or bool(placeholder_sections)
NeedsRewrite(flags) ==
    flags.has_contradictions \/ flags.style_issues \/ flags.cohesion_issues
        \/ flags.placeholder_sections

process_verify(p, table, st, verification, placeholders, sendOk) ==
    LET cs == CycleStateAtEntry(p, table)
        data == ensure_cycle_state(p, table)
        cycle_idx == Min(cs.requested, cs.completed + 1)
        placeholder_sections == placeholders \cap extract_sections(st.draft)
        style_raw == st.styleJson[cycle_idx]
        cohesion_raw == st.cohesionJson[cycle_idx]
        flags == [has_contradictions |-> verification.any,
                  style_issues |-> GuidanceText(style_raw),
                  cohesion_issues |-> GuidanceText(cohesion_raw),
                  placeholder_sections |-> placeholder_sections # {}]
        needs_rewrite == NeedsRewrite(flags)
        payload == [data EXCEPT !.verification = verification.ids,
                                !.placeholder_sections = placeholder_sections,
                                !.requires_rewrite = needs_rewrite]
        st1 == [st EXCEPT !.contraJson[cycle_idx] = Blob(verification.ids)]
    IN  Outcome(st1, sendOk,
                IF sendOk THEN <<[q |-> "rewrite", p |-> payload]>> ELSE <<>>, <<>>,
                [NoLast EXCEPT
                    !.stage = "verify", !.ok = sendOk, !.agent = TRUE, !.entry = cs,
                    !.raw = CycleFieldsOf(p), !.puts = {"contradictions.json"},
                    !.requires = needs_rewrite,
                    !.flags = flags,
                    !.sends = IF sendOk THEN <<SendRec("rewrite", payload)>> ELSE <<>>,
                    !.evs = <<"VERIFY_START", "VERIFY_DONE", "REWRITE_QUEUED">>])

(***************************************************************************)
(* process_rewrite                                                         *)
(***************************************************************************)
\* the sequences without repetition over a set
RECURSIVE Orders(_)
Orders(S) ==
    IF S = {} THEN {<<>>}
    ELSE UNION {{<<x>> \o o : o \in Orders(S \ {x})} : x \in S}

\* the orders in which iterating a Python set of strings may yield its
\* elements (string hashing is randomised per process)
IterationOrders(S) == Orders(S)

\* what the affected set is computed from: the section ids of the
\* contradictions, those of the style and cohesion guidance, the
\* placeholder_sections of the message, and whether a guidance text exists
AffectedInputs(p, st, cycle_idx) ==
    [contra |-> IF st.contraJson[cycle_idx].exists
                THEN st.contraJson[cycle_idx].ids ELSE p.verification,
     guided |-> GuidanceSections(st.styleJson[cycle_idx])
                \cup GuidanceSections(st.cohesionJson[cycle_idx]),
     placeholders |-> p.placeholder_sections,
     guidance |-> GuidanceText(st.styleJson[cycle_idx])
                  \/ GuidanceText(st.cohesionJson[cycle_idx])]

\* affected: contradictions and guidance sections, all sections when these
\* are none and there is guidance; the placeholder sections are added last
AffectedOf(inputs) ==
    (IF inputs.contra \cup inputs.guided = {} /\ inputs.guidance
     THEN Sections ELSE inputs.contra \cup inputs.guided)
        \cup inputs.placeholders

\* the affected set of a rewrite
AffectedSections(p, st, cycle_idx) == AffectedOf(AffectedInputs(p, st, cycle_idx))

\* next_completed with the increment forgotten
next_completed_stuck(cs) == Min(cs.requested, cs.completed)

\* next_completed = min(requested, completed + 1)
next_completed(cs) == Min(cs.requested, cs.completed + 1)

\* the queue the completed rewrite sends to
RewriteSuccessor(ncs) ==
    IF ncs.completed < ncs.requested THEN "review_general" ELSE "diagram_prep"

\* the set affected that process_rewrite iterates
RewriteAffected(p, table, st) ==
    LET cs == CycleStateAtEntry(p, table)
    IN  IF p.requires_rewrite
        THEN AffectedSections(p, st, Min(cs.requested, cs.completed + 1)) ELSE {}

process_rewrite(p, table, st, order, sendOk) ==
    LET cs == CycleStateAtEntry(p, table)
        data == ensure_cycle_state(p, table)
        requires_rewrite == p.requires_rewrite
        rewritten_sections == p.rewritten_sections
        cycle_idx == Min(cs.requested, cs.completed + 1)
        affected == RewriteAffected(p, table, st)
        remaining == SelectSeq(order, LAMBDA x : x \notin rewritten_sections)
        batch == Take(remaining, Max(1, write_batch_size))
        \* sections missing from the outline are skipped and not recorded
        rewritten1 == rewritten_sections \cup (Range(batch) \cap Sections)
        remaining_after_batch == affected \ rewritten1
        progress_payload == [data EXCEPT !.requires_rewrite = TRUE,
                                         !.rewritten_sections = rewritten1]
        ncs == [requested |-> cs.requested, completed |-> next_completed(cs)]
        payload == [apply(ncs, data) EXCEPT !.placeholder_sections = {},
                                            !.rewritten_sections = rewritten1,
                                            !.requires_rewrite = FALSE]
        target == RewriteSuccessor(ncs)
        base == [NoLast EXCEPT !.stage = "rewrite", !.ok = sendOk, !.entry = cs,
                               !.raw = CycleFieldsOf(p), !.requires = requires_rewrite,
                               !.agent = Range(batch) \cap Sections # {},
                               !.batch = Range(batch), !.order = batch,
                               !.before = rewritten_sections, !.after = rewritten1,
                               !.affected = affected,
                               !.puts = IF batch # <<>> THEN {"draft", "rewrite.md"} ELSE {}]
    IN  IF requires_rewrite /\ remaining_after_batch # {}
        THEN Outcome(st, sendOk,
                     IF sendOk THEN <<[q |-> "rewrite", p |-> progress_payload]>> ELSE <<>>,
                     <<>>,
                     [base EXCEPT
                        !.sends = IF sendOk THEN <<SendRec("rewrite", progress_payload)>> ELSE <<>>,
                        !.evs = <<"REWRITE_START", "REWRITE_QUEUED">>
                                \o (IF sendOk THEN <<"REWRITE_IN_PROGRESS">> ELSE <<>>)])
        ELSE Outcome(st, sendOk,
                     IF sendOk THEN <<[q |-> target, p |-> payload]>> ELSE <<>>,
                     IF sendOk THEN <<ncs.completed>> ELSE <<>>,
                     [base EXCEPT
                        !.complete = TRUE,
                        !.sends = IF sendOk THEN <<SendRec(target, payload)>> ELSE <<>>,
                        !.evs = <<"REWRITE_START",
                                  IF target = "review_general" THEN "REVIEW_QUEUED"
                                  ELSE "DIAGRAM_QUEUED">>
                                \o (IF sendOk THEN <<"REWRITE_DONE">> ELSE <<>>)])

(***************************************************************************)
(* The worker harness (run_processor) and the broker                       *)
(***************************************************************************)
Payload(cyc) ==
    [cycles |-> cyc.cycles, expected_cycles |-> cyc.expected_cycles,
     cycles_completed |-> cyc.cycles_completed, cycles_remaining |-> cyc.cycles_remaining,
     written_sections |-> {}, rewritten_sections |-> {}, placeholder_sections |-> {},
     requires_rewrite |-> FALSE, verification |-> {}]

Idle == [q |-> "none", p |-> Payload(NoCycleFields)]

\* the cycle fields a message put on a stage queue may carry
InitCycleFields ==
    {[cycles |-> c, expected_cycles |-> MissingV, cycles_completed |-> k,
      cycles_remaining |-> r] :
        c \in {MissingV} \cup {IntV(n) : n \in Cycles},
        k \in {MissingV} \cup {IntV(n) : n \in 0..MaxCycles},
        r \in {MissingV} \cup {IntV(n) : n \in 0..MaxCycles}}

\* a newly submitted job: cycles = N, nothing completed
IsFresh(start, cyc) ==
    /\ start = "write"
    /\ cyc.cycles.k = "int"
    /\ cyc.cycles_completed = IntV(0)
    /\ cyc.cycles_remaining = cyc.cycles

NoneSent == [latest |-> -1, nondecreasing |-> TRUE, bounded |-> TRUE]

\* a message of a job of n cycles of which k are completed
CycleFields(n, k) ==
    [cycles |-> IntV(n), expected_cycles |-> IntV(n), cycles_completed |-> IntV(k),
     cycles_remaining |-> IntV(n - k)]

InitPlan(start, cyc, pl) ==
        /\ plan = pl
        /\ queue = {[q |-> start, p |-> Payload(cyc), lock |-> "none"]}
        /\ running = [w \in Workers |-> Idle]
        /\ draft = IF start = "write" THEN <<>> ELSE topological_order
        /\ progress = [c \in Cycles |-> _init_review_progress]
        /\ styleJson = [c \in Cycles |-> NoBlob]
        /\ cohesionJson = [c \in Cycles |-> NoBlob]
        /\ contraJson = [c \in Cycles |-> NoBlob]
        /\ failures = 0
        /\ expiries = 0
        /\ malformed = 0
        /\ sentCc = NoneSent
        /\ rewriteDone = <<>>
        /\ writeLog = IF start = "write" THEN <<>> ELSE topological_order
        /\ fresh = IF IsFresh(start, cyc) THEN cyc.cycles.v ELSE 0
        /\ last = NoLast
        /\ arg = <<>>
        /\ res = <<>>

InitWith(start, cyc) == InitPlan(start, cyc, "chain")

\* a message on a stage queue, or a plan with a dependency cycle arriving at
\* the write stage (the stage never lets such a job pass)
Init ==
    \/ \E start \in StartQueues, cyc \in InitCycleFields : InitWith(start, cyc)
    \/ \E n \in Cycles : InitPlan("write", CycleFields(n, 0), "cyclic")

\* a newly submitted job
InitAtLeastOnce == \E n \in 1..(MaxCycles - 1) : InitWith("write", CycleFields(n, 0))

\* the message of worker w as long as w holds its lock
Held(w) == {m \in queue : m.q = running[w].q /\ m.p = running[w].p /\ m.lock = w}

\* receiver.complete_message / abandon_message: they act only while the
\* worker still holds the lock of the message
Settle(w, ok) ==
    IF ok THEN queue \ Held(w)
    ELSE (queue \ Held(w)) \cup {[m EXCEPT !.lock = "none"] : m \in Held(w)}

\* how run_processor leaves the message: complete_message after the handler
\* returned, abandon_message after it raised; without the lock
\* complete_message raises inside the try, the except branch calls
\* abandon_message, which raises as well, and the message is not settled
Settlement(w, ok) ==
    IF Held(w) = {} THEN "lost" ELSE IF ok THEN "completed" ELSE "abandoned"

\* the history of the enqueued messages, kept as the last cycles_completed
\* enqueued, whether the values were nondecreasing so far, and whether none
\* exceeded the cycles of its message
AppendSent(h, sends) ==
    IF sends = <<>> THEN h
    ELSE [latest |-> sends[1].cycles_completed,
          nondecreasing |-> h.nondecreasing /\ h.latest <= sends[1].cycles_completed,
          bounded |-> h.bounded /\ sends[1].cycles_completed <= sends[1].cycles]

\* receive_messages: the worker takes the lock of a deliverable message
Receive(w) ==
    /\ running[w] = Idle
    /\ \E m \in queue :
        /\ m.lock = "none"
        /\ m.q \in HandledQueues
        /\ queue' = (queue \ {m}) \cup {[m EXCEPT !.lock = w]}
        /\ running' = [running EXCEPT ![w] = [q |-> m.q, p |-> m.p]]
    /\ last' = NoLast
    /\ UNCHANGED <<draft, progress, styleJson, cohesionJson, contraJson, failures,
                   expiries, malformed, sentCc, rewriteDone, fresh, plan, writeLog, arg, res>>

\* the handler ran and returned or raised: its effects, then the settlement.
\* The diagram_prep queue and the stages behind it are outside this model:
\* a message enqueued there (recorded in last.sends) is not kept.
Commit(w, o) ==
    /\ o.ok \/ (failures < MaxFailures /\ expiries = 0 /\ malformed = 0)
    /\ draft' = o.st.draft
    /\ progress' = o.st.progress
    /\ styleJson' = o.st.styleJson
    /\ cohesionJson' = o.st.cohesionJson
    /\ contraJson' = o.st.contraJson
    /\ queue' = Settle(w, o.ok)
                 \cup {[q |-> o.send[i].q, p |-> o.send[i].p, lock |-> "none"] :
                            i \in {j \in 1..Len(o.send) : o.send[j].q \in HandledQueues}}
    /\ running' = [running EXCEPT ![w] = Idle]
    /\ failures' = IF o.ok THEN failures ELSE failures + 1
    /\ sentCc' = AppendSent(sentCc, o.last.sends)
    /\ rewriteDone' = rewriteDone \o o.done
    /\ writeLog' = IF o.last.stage = "write" THEN writeLog \o o.last.order ELSE writeLog
    /\ last' = [o.last EXCEPT !.settled = Settlement(w, o.ok)]
    /\ UNCHANGED <<expiries, fresh, plan, arg, res>>

\* the status table matters to a stage only when a cycle field is unset
TablesFor(p) ==
    IF \E i \in 1..Len(_CYCLE_FIELDS) : p[_CYCLE_FIELDS[i]].k \in {"missing", "none", "empty"}
    THEN StatusTables ELSE {EmptyTable}

\* the handler raised on the message itself (no collaborator failed): the
\* worker abandons the message, and the same happens at every redelivery
Reject(w, o) ==
    /\ queue' = Settle(w, FALSE)
    /\ running' = [running EXCEPT ![w] = Idle]
    /\ last' = [o.last EXCEPT !.settled = Settlement(w, FALSE)]
    /\ UNCHANGED <<draft, progress, styleJson, cohesionJson, contraJson, failures,
                   expiries, sentCc, rewriteDone, fresh, plan, writeLog, arg, res>>

\* a storage error the stage swallows counts as a deviating collaborator
WriteStep(w, table, fault, sendOk) ==
    /\ fault = "none" \/ (sendOk /\ malformed < MaxMalformed /\ expiries = 0 /\ failures = 0)
    /\ malformed' = IF fault = "none" THEN malformed ELSE malformed + 1
    /\ Commit(w, process_write(running[w].p, table, Storage, fault, sendOk))

ProcessWrite(w) ==
    /\ running[w].q = "write"
    /\ IF HasCycle
       THEN /\ Reject(w, process_write(running[w].p, EmptyTable, Storage, "none", TRUE))
            /\ UNCHANGED malformed
       ELSE \E table \in TablesFor(running[w].p), sendOk \in BOOLEAN,
               fault \in StorageFaults :
                WriteStep(w, table, fault, sendOk)

\* the responses the reviewer may give to the batch the stage sends it
ReviewStep(w, table, resp, sendOk, wellFormed) ==
    /\ wellFormed \/ (malformed < MaxMalformed /\ expiries = 0 /\ failures = 0)
    /\ malformed' = IF wellFormed THEN malformed ELSE malformed + 1
    /\ Commit(w, process_review(AgentOf(running[w].q), running[w].p, table, Storage,
                                resp, sendOk))

ResponsesFor(batches) ==
    IF batches = <<>> THEN {Response({}, FALSE)} ELSE AgentResponses(batches[1])

WellFormed(batches, resp) ==
    IF batches = <<>> THEN TRUE ELSE resp.ids = Range(batches[1]) /\ ~resp.extra

ProcessReview(w) ==
    /\ running[w].q \in ReviewQueues
    /\ \E table \in TablesFor(running[w].p), sendOk \in BOOLEAN :
        \E resp \in ResponsesFor(BatchesAtEntry(AgentOf(running[w].q),
                                    CycleStateAtEntry(running[w].p, table), Storage)) :
            /\ ReviewStep(w, table, resp, sendOk,
                          WellFormed(BatchesAtEntry(AgentOf(running[w].q),
                                        CycleStateAtEntry(running[w].p, table), Storage), resp))

\* a verifier answer naming an unknown section, or a draft in which the
\* writer left a placeholder, counts as a deviating collaborator output
VerifyStep(w, table, verification, placeholders, sendOk, regular) ==
    /\ regular \/ (malformed < MaxMalformed /\ expiries = 0 /\ failures = 0)
    /\ malformed' = IF regular THEN malformed ELSE malformed + 1
    /\ Commit(w, process_verify(running[w].p, table, Storage, verification,
                                placeholders, sendOk))

ProcessVerify(w) ==
    /\ running[w].q = "verify"
    /\ \E table \in TablesFor(running[w].p), sendOk \in BOOLEAN,
          verification \in VerifierResults, placeholders \in PlaceholderResults :
        VerifyStep(w, table, verification, placeholders, sendOk,
                   verification.ids \subseteq Sections /\ placeholders = {})

ProcessRewrite(w) ==
    /\ running[w].q = "rewrite"
    /\ \E table \in TablesFor(running[w].p), sendOk \in BOOLEAN :
        \E order \in IterationOrders(RewriteAffected(running[w].p, table, Storage)) :
            /\ Commit(w, process_rewrite(running[w].p, table, Storage, order, sendOk))
        /\ UNCHANGED malformed

\* the handler raised before it stored or sent anything (collaborator error)
HandlerFails(w) ==
    /\ running[w] # Idle
    /\ failures < MaxFailures /\ expiries = 0 /\ malformed = 0
    /\ failures' = failures + 1
    /\ queue' = Settle(w, FALSE)
    /\ running' = [running EXCEPT ![w] = Idle]
    /\ last' = [NoLast EXCEPT !.stage = running[w].q, !.ok = FALSE,
                              !.raw = CycleFieldsOf(running[w].p),
                              !.settled = Settlement(w, FALSE)]
    /\ UNCHANGED <<draft, progress, styleJson, cohesionJson, contraJson, expiries,
                   malformed, sentCc, rewriteDone, fresh, plan, writeLog, arg, res>>

\* the lock of a received message runs out: the message waited in the
\* received batch without renewal, or renewal reached sb_lock_renew_s
LockExpire ==
    /\ expiries < MaxExpiries /\ failures = 0 /\ malformed = 0
    /\ \E m \in queue :
        /\ m.lock # "none"
        /\ queue' = (queue \ {m}) \cup {[m EXCEPT !.lock = "none"]}
    /\ expiries' = expiries + 1
    /\ UNCHANGED <<running, draft, progress, styleJson, cohesionJson, contraJson,
                   failures, malformed, sentCc, rewriteDone, fresh, plan, writeLog, last, arg, res>>

Next ==
    \/ \E w \in Workers : Receive(w)
    \/ \E w \in Workers : ProcessWrite(w)
    \/ \E w \in Workers : ProcessReview(w)
    \/ \E w \in Workers : ProcessVerify(w)
    \/ \E w \in Workers : ProcessRewrite(w)
    \/ \E w \in Workers : HandlerFails(w)

\* the pipeline while every lock outlives its handler
Spec == Init /\ [][Next]_vars

NextAtLeastOnce == Next \/ LockExpire

\* the pipeline on the at-least-once broker
SpecAtLeastOnce == InitAtLeastOnce /\ [][NextAtLeastOnce]_vars

(***************************************************************************)
(* Cycle normalisation as a function of its inputs                         *)
(***************************************************************************)
\* the pipeline at rest
NoPipeline ==
    /\ plan = "chain"
    /\ queue = {}
    /\ running = [w \in Workers |-> Idle]
    /\ draft = <<>>
    /\ progress = [c \in Cycles |-> _init_review_progress]
    /\ styleJson = [c \in Cycles |-> NoBlob]
    /\ cohesionJson = [c \in Cycles |-> NoBlob]
    /\ contraJson = [c \in Cycles |-> NoBlob]
    /\ failures = 0
    /\ expiries = 0
    /\ malformed = 0
    /\ sentCc = NoneSent
    /\ rewriteDone = <<>>
    /\ writeLog = <<>>
    /\ fresh = 0
    /\ last = NoLast

\* any value a cycle field may hold
CycleValues == {MissingV, NoneV, EmptyV, JunkV} \cup {IntV(n) : n \in -1..(MaxCycles + 1)}

CycleInputs ==
    [cycles : CycleValues, expected_cycles : CycleValues,
     cycles_completed : CycleValues, cycles_remaining : CycleValues]

\* the details enrich_details_with_cycles writes: the three fields together
CycleDetails(n, k) ==
    [cycles |-> MissingV, expected_cycles |-> IntV(n),
     cycles_completed |-> IntV(k), cycles_remaining |-> IntV(n - k)]

\* a row of an event published without details (START, QUEUED, ...)
PlainRow == Entity(NoCycleFields, NoCycleFields)

\* a latest row recording cycles and cycles_completed only
LatestCyclesTable ==
    [latest |-> <<Entity([cycles |-> IntV(MaxCycles + 1), expected_cycles |-> MissingV,
                          cycles_completed |-> IntV(1), cycles_remaining |-> MissingV],
                         NoCycleFields)>>,
     history |-> <<>>]

\* latest without cycle data; the timeline, oldest first, holds two rows with it
TimelineTable ==
    [latest |-> <<PlainRow>>,
     history |-> <<Entity(NoCycleFields, CycleDetails(MaxCycles, 0)), PlainRow,
                   Entity(NoCycleFields, CycleDetails(MaxCycles, 1)), PlainRow>>]

\* latest and the timeline disagree
LatestAndTimelineTable ==
    [latest |-> <<Entity(NoCycleFields, CycleDetails(MaxCycles, 1))>>,
     history |-> <<Entity(NoCycleFields, CycleDetails(MaxCycles, 0)),
                   Entity(NoCycleFields, CycleDetails(MaxCycles, 1))>>]

\* cycle data nested in details.parsed_message of a timeline row
ParsedMessageTable ==
    [latest |-> <<>>,
     history |-> <<[top |-> NoCycleFields, details |-> NoCycleFields,
                    parsed_message |-> CycleDetails(MaxCycles, 1)]>>]

\* status tables, among them one whose history holds out-of-range integers
CycleTables ==
    StatusTables \cup
    {[latest |-> <<>>,
      history |-> <<Entity([cycles |-> IntV(0), expected_cycles |-> JunkV,
                            cycles_completed |-> IntV(MaxCycles + 1),
                            cycles_remaining |-> IntV(-1)], NoCycleFields)>>],
     LatestCyclesTable, TimelineTable, LatestAndTimelineTable, ParsedMessageTable}

InitCycle ==
    /\ NoPipeline
    /\ arg \in [p : CycleInputs, table : CycleTables]
    /\ res = [done |-> FALSE, h |-> NoCycleFields, p |-> NoCycleFields]

\* ensure_cycle_state(payload) at stage entry
Normalise ==
    /\ ~res.done
    /\ res' = [done |-> TRUE, h |-> CycleFieldsOf(hydrate(arg.p, arg.table)),
               p |-> ensure_cycle_state(arg.p, arg.table)]
    /\ UNCHANGED <<pipeVars, arg>>

NextCycle == Normalise

SpecCycle == InitCycle /\ [][NextCycle]_vars

(***************************************************************************)
(* Replay of one rewrite message                                           *)
(***************************************************************************)
\* rewrite messages that require a rewrite, with the storage they meet
ReplayInputs ==
    {[p |-> [Payload(CycleFields(MaxCycles, 0)) EXCEPT
                !.requires_rewrite = TRUE, !.rewritten_sections = rw,
                !.placeholder_sections = ph, !.verification = contra],
      st |-> [draft |-> topological_order,
              progress |-> [c \in Cycles |-> _init_review_progress],
              styleJson |-> [c \in Cycles |-> style],
              cohesionJson |-> [c \in Cycles |-> NoBlob],
              contraJson |-> [c \in Cycles |-> Blob(contra)]]] :
        rw \in {{}, {"s1"}}, ph \in PlaceholderResults, contra \in SUBSET Sections,
        style \in {NoBlob, Blob({"s1"})}}

NoRun == [done |-> FALSE, send |-> <<>>, batch |-> <<>>]

InitReplay ==
    /\ NoPipeline
    /\ arg \in ReplayInputs
    /\ res = [first |-> NoRun, second |-> NoRun]

\* one run of process_rewrite on the message: what it sent and rewrote
Run(order) ==
    LET o == process_rewrite(arg.p, EmptyTable, arg.st, order, TRUE)
    IN  [done |-> TRUE, send |-> o.send, batch |-> o.last.order]

ReplayFirst ==
    /\ ~res.first.done
    /\ \E order \in IterationOrders(RewriteAffected(arg.p, EmptyTable, arg.st)) :
        res' = [res EXCEPT !.first = Run(order)]
    /\ UNCHANGED <<pipeVars, arg>>

\* the same message against the same storage, in another worker process
ReplaySecond ==
    /\ res.first.done /\ ~res.second.done
    /\ \E order \in IterationOrders(RewriteAffected(arg.p, EmptyTable, arg.st)) :
        res' = [res EXCEPT !.second = Run(order)]
    /\ UNCHANGED <<pipeVars, arg>>

NextReplay == ReplayFirst \/ ReplaySecond

SpecReplay == InitReplay /\ [][NextReplay]_vars

(***************************************************************************)
(* The dependency graph as a function of the outline                       *)
(***************************************************************************)
\* the dependency lists a section may carry: any in-outline ids, an id
\* that is not in the outline, or both kinds
DependencyLists == (SUBSET Sections) \cup {{Unknown}, {Unknown, "s1"}}

\* outlines over any subset of the section ids, in any order
OutlineInputs ==
    UNION {UNION {{[i \in 1..Len(o) |-> [id |-> o[i], dependencies |-> deps[o[i]]]] :
                        deps \in [S -> DependencyLists]} : o \in Orders(S)} :
           S \in SUBSET Sections}

NoOrder == [done |-> FALSE, ok |-> FALSE, order |-> <<>>]
NoLayers == [done |-> FALSE, ok |-> FALSE, layers |-> <<>>]

InitGraph ==
    /\ NoPipeline
    /\ arg \in OutlineInputs
    /\ res = [order |-> NoOrder, layers |-> NoLayers]

\* build_dependency_graph(outline).topological_order()
TopologicalOrder ==
    /\ ~res.order.done
    /\ LET r == GraphOrder(build_dependency_graph(arg))
       IN  res' = [res EXCEPT !.order = [done |-> TRUE, ok |-> r.ok, order |-> r.order]]
    /\ UNCHANGED <<pipeVars, arg>>

\* build_dependency_graph(outline).layers()
Layers ==
    /\ ~res.layers.done
    /\ LET r == layers(build_dependency_graph(arg))
       IN  res' = [res EXCEPT !.layers = [done |-> TRUE, ok |-> r.ok, layers |-> r.layers]]
    /\ UNCHANGED <<pipeVars, arg>>

NextGraph == TopologicalOrder \/ Layers

SpecGraph == InitGraph /\ [][NextGraph]_vars

(***************************************************************************)
(* Properties                                                              *)
(***************************************************************************)
IsInt(x) == x.k = "int"

\* C1: the cycles_completed values of the job's stage messages, in the
\* order the messages are enqueued, never decrease and never exceed the
\* requested cycles.
C1_CyclesMonotoneBounded == sentCc.nondecreasing /\ sentCc.bounded

\* C2: a job submitted with cycles = N completes exactly the rewrites
\* 1, ..., N (never more than N REWRITE_DONE events, the i-th carrying
\* cycles_completed = i), the N-th one hands the job to diagram_prep, and
\* once N rewrites are done no review agent and no verifier runs again.
C2_ExactlyNCycles ==
    fresh > 0 =>
        /\ Len(rewriteDone) <= fresh
        /\ \A i \in 1..Len(rewriteDone) : rewriteDone[i] = i
        /\ (last.stage = "rewrite" /\ last.complete /\ last.ok
                => (last.sends[1].q = "diagram_prep" <=> Len(rewriteDone) = fresh))
        /\ (last.stage \in ReviewQueues \cup {"verify"} /\ last.agent
                => Len(rewriteDone) < fresh)

\* C3: after ensure_cycle_state, whatever the four cycle fields held,
\* cycles >= 1, 0 <= cycles_completed <= cycles and
\* cycles_remaining = cycles - cycles_completed.
C3_CycleStateNormalised ==
    res.done =>
        /\ IsInt(res.p.cycles) /\ IsInt(res.p.cycles_completed)
        /\ IsInt(res.p.cycles_remaining)
        /\ res.p.cycles.v >= 1
        /\ 0 <= res.p.cycles_completed.v
        /\ res.p.cycles_completed.v <= res.p.cycles.v
        /\ res.p.cycles_remaining.v = res.p.cycles.v - res.p.cycles_completed.v

C3_Witness ==
    /\ res.done
    /\ arg.p.cycles = JunkV
    /\ arg.p.cycles_completed = IntV(MaxCycles + 1)
    /\ arg.p.cycles_remaining = EmptyV

\* the cycle fields of a message are integers that agree with each other
WellFormedCycles(raw) ==
    /\ IsInt(raw.cycles) /\ IsInt(raw.cycles_completed) /\ IsInt(raw.cycles_remaining)
    /\ raw.cycles.v >= 1
    /\ 0 <= raw.cycles_completed.v /\ raw.cycles_completed.v <= raw.cycles.v
    /\ raw.cycles_remaining.v = raw.cycles.v - raw.cycles_completed.v

\* C4: a completing rewrite sends one message, whose cycles_completed is
\* min(requested, completed at entry + 1) and whose cycles_remaining is
\* recomputed from it; the message goes to review_general if the new
\* cycles_completed is below requested and to diagram_prep otherwise.
C4_RewriteCompletion ==
    last.stage = "rewrite" /\ last.complete /\ last.ok =>
        /\ Len(last.sends) = 1
        /\ WellFormedCycles(last.raw) =>
                /\ last.entry.requested = last.raw.cycles.v
                /\ last.entry.completed = last.raw.cycles_completed.v
        /\ last.sends[1].cycles = last.entry.requested
        /\ last.sends[1].cycles_completed
                = Min(last.entry.requested, last.entry.completed + 1)
        /\ last.sends[1].cycles_remaining
                = last.sends[1].cycles - last.sends[1].cycles_completed
        /\ last.sends[1].q = IF last.sends[1].cycles_completed < last.entry.requested
                             THEN "review_general" ELSE "diagram_prep"

C4_Witness ==
    /\ last.stage = "rewrite" /\ last.complete /\ last.ok
    /\ WellFormedCycles(last.raw)
    /\ last.sends[1].q = "review_general"
    /\ last.sends[1].cycles_completed = last.raw.cycles_completed.v + 1

\* C5: a review stage that receives a message with cycles_completed >=
\* cycles runs no reviewer, writes no review artifact and no progress
\* blob, and enqueues exactly one message, to diagram_prep.
C5_ExhaustedShortCircuit ==
    /\ last.stage \in ReviewQueues
    /\ IsInt(last.raw.cycles) /\ IsInt(last.raw.cycles_completed)
    /\ last.raw.cycles_completed.v >= last.raw.cycles.v
    => /\ ~last.agent
       /\ last.puts = {}
       /\ last.ok => Len(last.sends) = 1 /\ last.sends[1].q = "diagram_prep"

C5_Witness ==
    /\ last.stage \in ReviewQueues
    /\ IsInt(last.raw.cycles) /\ IsInt(last.raw.cycles_completed)
    /\ last.raw.cycles_completed.v >= last.raw.cycles.v
    /\ last.ok
    /\ last.sends[1].q = "diagram_prep"

\* C6: at most one handler is executing for the job at any time.
C6_SingleHandler == Cardinality({w \in Workers : running[w] # Idle}) <= 1

\* C7: blob writes are idempotent under retry: the draft holds the block
\* of each section at most once, also after a write message is processed
\* a second time.
C7_DraftSectionsOnce ==
    \A sid \in Sections : Cardinality({i \in 1..Len(draft) : draft[i] = sid}) <= 1

\* C8: replaying a rewrite message against the same storage with the same
\* agent responses yields the same successor message and the same batch,
\* in the same order.
C8_ReplayDeterministic == res.first.done /\ res.second.done => res.first = res.second

\* C9: in every review dispatch that sends a batch to the reviewer,
\* whatever the reviewer answers, at least one more section of the batch
\* is added to sections_done.
C9_BatchProgress ==
    last.stage \in ReviewQueues /\ last.agent /\ last.batch # {}
        => (last.after \ last.before) \cap last.batch # {}

\* the sets of the first k sections of the order in which the draft is reviewed
OrderPrefixes ==
    {Range(Take(_ordered_section_ids(draft), k)) : k \in 0..Len(_ordered_section_ids(draft))}

SectionsDoneGrow ==
    \A c \in Cycles, a \in Agents :
        progress[c][a].sections_done \subseteq progress'[c][a].sections_done

\* C10: for each agent and cycle the persisted sections_done only grows
\* from one entry of the stage to the next, and is at every point a prefix
\* of the topological section order.
C10_GrowingPrefix ==
    /\ [][SectionsDoneGrow]_vars
    /\ [](\A c \in Cycles, a \in Agents : progress[c][a].sections_done \in OrderPrefixes)

RECURSIVE PredecessorClosure(_, _, _)
\* the nodes from which a node of S is reached by at most k further edges
PredecessorClosure(g, S, k) ==
    IF k = 0 THEN S
    ELSE PredecessorClosure(g, S \cup UNION {g.rev[n] : n \in S}, k - 1)

\* the graph over the outline ids has a directed cycle (a node that
\* reaches itself, a self-dependency included)
HasDirectedCycle(g) ==
    \E n \in Range(g.nodes) : n \in PredecessorClosure(g, g.rev[n], Len(g.nodes))

\* C12: topological_order() and layers() each raise "Cycle detected in
\* section dependencies" exactly when the graph over the outline's section
\* ids has a directed cycle, so they reject the same graphs.
C12_CycleDetection ==
    /\ res.order.done
            => (res.order.ok <=> ~HasDirectedCycle(build_dependency_graph(arg)))
    /\ res.layers.done
            => (res.layers.ok <=> ~HasDirectedCycle(build_dependency_graph(arg)))

C12_Witness ==
    /\ res.order.done /\ res.layers.done
    /\ ~res.order.ok /\ ~res.layers.ok
    /\ Len(arg) = Cardinality(Sections)
    /\ \E i \in 1..Len(arg) : arg[i].dependencies = {arg[i].id}
    /\ \A i \in 1..Len(arg) : arg[i].dependencies \subseteq {arg[i].id}

\* C11: the sections the write stage processes, over all the write
\* invocations of the job, hold every outline id exactly once, each after
\* all of its in-outline dependencies.
C11_WriteOrder ==
    /\ \A i, j \in 1..Len(writeLog) : writeLog[i] = writeLog[j] => i = j
    /\ \A i \in 1..Len(writeLog) :
            (Dependencies[writeLog[i]] \cap Sections) \subseteq {writeLog[j] : j \in 1..(i - 1)}
    /\ (last.stage = "write" /\ last.ok /\ "WRITE_DONE" \in Range(last.evs))
            => Range(writeLog) = Sections

\* C13: with a dependency cycle in the plan the write stage stores nothing,
\* enqueues nothing and publishes neither WRITE_IN_PROGRESS nor WRITE_DONE,
\* and the worker abandons the message, at every delivery.
C13_CyclicPlanRejected ==
    plan = "cyclic" =>
        /\ draft = <<>>
        /\ \A m \in queue : m.q = "write" /\ m.p.written_sections = {}
        /\ Cardinality(queue) = 1
        /\ Range(last.evs) \cap {"WRITE_IN_PROGRESS", "WRITE_DONE"} = {}
        /\ last.stage = "write" =>
                /\ ~last.ok /\ last.sends = <<>> /\ last.puts = {}
                /\ \A m \in queue : m.lock = "none"

C13_Witness ==
    /\ plan = "cyclic"
    /\ last.stage = "write" /\ ~last.ok
    /\ failures = 0
    /\ \E m \in queue : m.q = "write" /\ m.lock = "none"

\* C14: when the write stage publishes WRITE_DONE and enqueues
\* review_general, the section ids found in the stored draft are the ids of
\* the outline.
C14_DraftCoversOutline ==
    (last.stage = "write" /\ last.ok /\ "WRITE_DONE" \in Range(last.evs))
        => extract_sections(draft) = Sections

\* C15: a verify invocation that succeeds enqueues exactly one message, to
\* rewrite, whose requires_rewrite is the disjunction of the four flags
\* that its VERIFY_DONE event carries.
C15_VerifyRouting ==
    last.stage = "verify" /\ last.ok =>
        /\ Len(last.sends) = 1
        /\ last.sends[1].q = "rewrite"
        /\ "VERIFY_DONE" \in Range(last.evs)
        /\ last.sends[1].requires_rewrite
                = (last.flags.has_contradictions \/ last.flags.style_issues
                   \/ last.flags.cohesion_issues \/ last.flags.placeholder_sections)

C15_Witness ==
    /\ last.stage = "verify" /\ last.ok
    /\ ~last.flags.has_contradictions /\ ~last.flags.placeholder_sections
    /\ last.flags.style_issues
    /\ last.sends[1].requires_rewrite

\* the verify invocation that just ended met no contradiction and no
\* placeholder, and the style and cohesion artifacts of its cycle cover
\* every section and list no issue and no suggestion
CleanCycle ==
    LET cycle_idx == Min(last.entry.requested, last.entry.completed + 1)
    IN  /\ last.stage = "verify" /\ last.ok
        /\ ~last.flags.has_contradictions /\ ~last.flags.placeholder_sections
        /\ styleJson[cycle_idx] = ReviewBlob(Sections, FALSE)
        /\ cohesionJson[cycle_idx] = ReviewBlob(Sections, FALSE)

\* C16: in a cycle with no contradictions, no placeholders and well-formed
\* style and cohesion results without issues or suggestions, VERIFY_DONE
\* carries four false flags and the rewrite message has requires_rewrite
\* false.
C16_CleanCycleNoRewrite ==
    CleanCycle =>
        /\ last.flags = NoFlags
        /\ ~last.sends[1].requires_rewrite

\* C17: the message a completing rewrite sends carries empty
\* rewritten_sections and empty placeholder_sections.
C17_CompletionClearsSections ==
    last.stage = "rewrite" /\ last.complete /\ last.ok =>
        /\ last.sends[1].rewritten_sections = {}
        /\ last.sends[1].placeholder_sections = {}

\* the cycle-field sources of a row, in the order _ingest reads them
RowSources(entity) == <<entity.top, entity.details, entity.parsed_message>>

RECURSIVE NewestFirst(_, _)
\* the sources of the timeline rows i..1, newest row first
NewestFirst(history, i) ==
    IF i = 0 THEN <<>> ELSE RowSources(history[i]) \o NewestFirst(history, i - 1)

\* every source of the table: the latest row, then the timeline newest to oldest
TableSources(table) ==
    (IF table.latest = <<>> THEN <<>> ELSE RowSources(table.latest[1]))
        \o NewestFirst(table.history, Len(table.history))

\* the first integer the sources hold for field f, or cur when none does
FirstRecorded(f, srcs, cur) ==
    IF \E i \in 1..Len(srcs) : IsInt(srcs[i][f])
    THEN srcs[CHOOSE i \in 1..Len(srcs) :
                /\ IsInt(srcs[i][f])
                /\ \A j \in 1..(i - 1) : ~IsInt(srcs[j][f])][f]
    ELSE cur

C19_SettledExactlyOnce ==
    last.stage # "none" =>
        /\ last.settled \in {"completed", "abandoned"}
        /\ (last.settled = "completed" <=> last.ok)
        /\ (~last.ok => last.settled = "abandoned")

(***************************************************************************)
(* The status events of one job.  Every stage has its own worker; a        *)
(* handler is the sequence of its publish_stage_event, publish_status and  *)
(* send_queue_message calls (the path of a stage's last batch), and the    *)
(* workers run one call at a time.                                         *)
(***************************************************************************)
Pub(name) == [op |-> "publish", name |-> name]
SendTo(q) == [op |-> "send", name |-> q]

\* the calls of each handler, in the order of the code
StageCalls(s, more) ==
    CASE s = "write" ->
            <<Pub("REVIEW_QUEUED"), SendTo("review_general"), Pub("WRITE_DONE")>>
      [] s = "review_general" ->
            <<Pub("REVIEW_START"), Pub("REVIEW_QUEUED"), SendTo("review_style"),
              Pub("REVIEW_IN_PROGRESS")>>
      [] s = "review_style" ->
            <<Pub("REVIEW_START"), Pub("REVIEW_QUEUED"), SendTo("review_cohesion"),
              Pub("REVIEW_IN_PROGRESS")>>
      [] s = "review_cohesion" ->
            <<Pub("REVIEW_START"), Pub("REVIEW_QUEUED"), SendTo("review_summary"),
              Pub("REVIEW_IN_PROGRESS")>>
      [] s = "review_summary" ->
            <<Pub("REVIEW_START"), Pub("VERIFY_QUEUED"), SendTo("verify"),
              Pub("REVIEW_DONE")>>
      [] s = "verify" ->
            <<Pub("VERIFY_START"), Pub("VERIFY_DONE"), Pub("REWRITE_QUEUED"),
              SendTo("rewrite")>>
      [] s = "rewrite" ->
            IF more
            THEN <<Pub("REWRITE_START"), Pub("REVIEW_QUEUED"), SendTo("review_general"),
                   Pub("REWRITE_DONE")>>
            ELSE <<Pub("REWRITE_START"), Pub("DIAGRAM_QUEUED"), SendTo("diagram_prep"),
                   Pub("REWRITE_DONE")>>

\* the completion event of a stage
CompletionEvent(s) ==
    CASE s = "write" -> "WRITE_DONE"
      [] s = "review_summary" -> "REVIEW_DONE"
      [] s = "verify" -> "VERIFY_DONE"
      [] s = "rewrite" -> "REWRITE_DONE"
      [] OTHER -> "none"

NoHandler == [pc |-> 0, from |-> "none", cc |-> 0]
NoEvent == [stage |-> "none", name |-> "none", early |-> FALSE]

\* the calls of the handler that runs at stage s
CallsAt(s) == StageCalls(s, res.at[s].cc + 1 < arg.cycles)

\* the handler moves to its next call, or returns
Advance(s) ==
    IF res.at[s].pc = Len(CallsAt(s)) THEN NoHandler
    ELSE [res.at[s] EXCEPT !.pc = @ + 1]

\* does the handler at s still have its completion event to publish?
CompletionAhead(s) ==
    \E i \in (res.at[s].pc + 1)..Len(CallsAt(s)) :
        CallsAt(s)[i] = Pub(CompletionEvent(s))

\* the job enters the write stage with cycles = n
InitEvents ==
    /\ NoPipeline
    /\ arg \in [cycles : Cycles]
    /\ res = [at |-> [s \in HandledQueues |-> NoHandler],
              msgs |-> {[q |-> "write", from |-> "none", cc |-> 0]},
              owed |-> {},
              ev |-> NoEvent]

\* the worker of stage s receives the message and calls the handler
EvReceive(s) ==
    /\ res.at[s].pc = 0
    /\ \E m \in res.msgs :
        /\ m.q = s
        /\ res' = [res EXCEPT !.at[s] = [pc |-> 1, from |-> m.from, cc |-> m.cc],
                              !.msgs = @ \ {m}]
    /\ UNCHANGED <<pipeVars, arg>>

\* publish_stage_event / publish_status; the event is early when the stage
\* that sent the handled message has not published its completion event
EvPublish(s) ==
    /\ res.at[s].pc > 0
    /\ CallsAt(s)[res.at[s].pc].op = "publish"
    /\ res' = [res EXCEPT
                !.at[s] = Advance(s),
                !.owed = IF CallsAt(s)[res.at[s].pc].name = CompletionEvent(s)
                         THEN @ \ {s} ELSE @,
                !.ev = [stage |-> s, name |-> CallsAt(s)[res.at[s].pc].name,
                        early |-> res.at[s].from \in res.owed]]
    /\ UNCHANGED <<pipeVars, arg>>

\* send_queue_message; process_rewrite has applied next_completed before.
\* A message for diagram_prep leaves the stages followed here.
EvSend(s) ==
    /\ res.at[s].pc > 0
    /\ CallsAt(s)[res.at[s].pc].op = "send"
    /\ res' = [res EXCEPT
                !.at[s] = Advance(s),
                !.msgs = IF CallsAt(s)[res.at[s].pc].name \in HandledQueues
                         THEN @ \cup {[q |-> CallsAt(s)[res.at[s].pc].name, from |-> s,
                                       cc |-> IF s = "rewrite" THEN res.at[s].cc + 1
                                              ELSE res.at[s].cc]}
                         ELSE @,
                !.owed = IF CompletionAhead(s) THEN @ \cup {s} ELSE @]
    /\ UNCHANGED <<pipeVars, arg>>

NextEvents ==
    \/ \E s \in HandledQueues : EvReceive(s)
    \/ \E s \in HandledQueues : EvPublish(s)
    \/ \E s \in HandledQueues : EvSend(s)

SpecEvents == InitEvents /\ [][NextEvents]_vars

\* C20: within a job a stage's completion event (WRITE_DONE, REVIEW_DONE,
\* VERIFY_DONE, REWRITE_DONE) is published before any status event that is
\* emitted while the successor stage's message is handled, also when the
\* successor runs in another worker.
C20_CausalEventOrder == ~res.ev.early

(***************************************************************************)
(* One review cycle with a reviewer that answers every batch as asked:     *)
(* the four review stages, one batch per message, and the status events    *)
(* they publish, counted per agent.                                        *)
(***************************************************************************)
NoReviewEvents == [in_progress |-> [a \in Agents |-> 0], done |-> 0]

\* how often an event name occurs among the events of one invocation
CountOf(evs, name) == Cardinality({i \in 1..Len(evs) : evs[i] = name})

\* the answers of a reviewer that returns one entry per section of the batch
ReviewerAnswers(batches) ==
    {r \in ResponsesFor(batches) : WellFormed(batches, r)}

\* a message arrives at review_general; the draft holds every section
InitReview ==
    /\ plan = "chain"
    /\ \E cyc \in InitCycleFields :
            queue = {[q |-> "review_general", p |-> Payload(cyc), lock |-> "none"]}
    /\ running = [w \in Workers |-> Idle]
    /\ draft = PlanOrders["chain"].order
    /\ progress = [c \in Cycles |-> _init_review_progress]
    /\ styleJson = [c \in Cycles |-> NoBlob]
    /\ cohesionJson = [c \in Cycles |-> NoBlob]
    /\ contraJson = [c \in Cycles |-> NoBlob]
    /\ failures = 0
    /\ expiries = 0
    /\ malformed = 0
    /\ sentCc = NoneSent
    /\ rewriteDone = <<>>
    /\ writeLog = PlanOrders["chain"].order
    /\ fresh = 0
    /\ last = NoLast
    /\ arg = <<>>
    /\ res = NoReviewEvents

\* the worker of the queue handles message m with outcome o and completes it
ReviewRound(m, o) ==
    /\ draft' = o.st.draft
    /\ progress' = o.st.progress
    /\ styleJson' = o.st.styleJson
    /\ cohesionJson' = o.st.cohesionJson
    /\ contraJson' = o.st.contraJson
    /\ queue' = {[q |-> o.send[i].q, p |-> o.send[i].p, lock |-> "none"] :
                    i \in 1..Len(o.send)}
    /\ last' = [o.last EXCEPT !.settled = "completed"]
    /\ res' = [in_progress |->
                    [res.in_progress EXCEPT ![AgentOf(m.q)] =
                        @ + CountOf(o.last.evs, "REVIEW_IN_PROGRESS")],
               done |-> res.done + CountOf(o.last.evs, "REVIEW_DONE")]
    /\ UNCHANGED <<running, failures, expiries, malformed, sentCc, rewriteDone,
                   writeLog, fresh, plan, arg>>

ReviewBatch ==
    \E m \in queue :
        /\ m.q \in ReviewQueues
        /\ \E resp \in ReviewerAnswers(BatchesAtEntry(AgentOf(m.q),
                                            CycleStateAtEntry(m.p, EmptyTable), Storage)) :
              ReviewRound(m, process_review(AgentOf(m.q), m.p, EmptyTable, Storage,
                                            resp, TRUE))

NextReview == ReviewBatch

SpecReview == InitReview /\ [][NextReview]_vars

\* the batches one agent reviews in a cycle: the sections in plan order, cut
\* at review_batch_size
BatchesOfCycle ==
    _plan_review_batches(PlanOrders["chain"].order, {}, PlanOrders["chain"].order)

\* C21: in one cycle each of the four review agents emits one
\* REVIEW_IN_PROGRESS event per batch (three for 7 sections in batches of 3;
\* here Len(BatchesOfCycle)), and the cycle ends with one REVIEW_DONE.
C21_ReviewEventsPerAgent ==
    (\E m \in queue : m.q = "verify") =>
        /\ \A a \in Agents : res.in_progress[a] = Len(BatchesOfCycle)
        /\ res.done = 1

\* the write stage ran a batch and the upload of the draft failed
DraftWriteFailed == last.stage = "write" /\ last.agent /\ last.puts = {}

\* C29: when a stage's artifact write fails, the handler fails and the
\* message is abandoned: that attempt enqueues no successor message.
C29_WriteFailureAbandons ==
    DraftWriteFailed => ~last.ok /\ last.sends = <<>> /\ last.settled = "abandoned"

(***************************************************************************)
(* merge_revised_markdown.  A document is a sequence of chunks: plain      *)
(* text (blank or not), a section block with its START and END markers,    *)
(* or a START marker that has no END marker.                               *)
(***************************************************************************)
MaxChunks == 2

TextChunk(inner) == [kind |-> "text", id |-> "none", inner |-> inner]
SectionChunk(id, inner) == [kind |-> "section", id |-> id, inner |-> inner]
OpenChunk(id) == [kind |-> "open", id |-> id, inner |-> "x"]

\* inner "" is blank, "unchanged" holds the words "content unchanged"
Chunks ==
    {TextChunk("t"), TextChunk(""), OpenChunk("s0"), SectionChunk("s2", "x")}
        \cup {SectionChunk("s1", inner) : inner \in {"x", "y", "", "unchanged"}}

Documents == UNION {[1..n -> Chunks] : n \in 0..MaxChunks}

\* text.strip() == ""
IsBlank(doc) == \A i \in 1..Len(doc) : doc[i] = TextChunk("")

\* the keys of extract_sections(text), in the order of their first match
RECURSIVE SectionIds(_, _, _)
SectionIds(doc, i, acc) ==
    IF i > Len(doc) THEN acc
    ELSE IF doc[i].kind = "section" /\ \A j \in 1..Len(acc) : acc[j] # doc[i].id
    THEN SectionIds(doc, i + 1, Append(acc, doc[i].id))
    ELSE SectionIds(doc, i + 1, acc)

\* extract_sections(text)[sid]: a later block of the same id overwrites
SectionText(doc, sid) ==
    doc[CHOOSE i \in 1..Len(doc) :
            /\ doc[i].kind = "section" /\ doc[i].id = sid
            /\ \A j \in (i + 1)..Len(doc) : ~(doc[j].kind = "section" /\ doc[j].id = sid)]

RECURSIVE ReplaceAll_insert(_, _, _)
\* a replace that keeps the old block and puts the new one behind it
ReplaceAll_insert(doc, old, new) ==
    IF doc = <<>> THEN <<>>
    ELSE (IF doc[1] = old THEN <<old, new>> ELSE <<doc[1]>>)
            \o ReplaceAll_insert(Tail(doc), old, new)

RECURSIVE ReplaceAll(_, _, _)
\* str.replace(old, new): every occurrence
ReplaceAll(doc, old, new) ==
    IF doc = <<>> THEN <<>>
    ELSE <<IF doc[1] = old THEN new ELSE doc[1]>> \o ReplaceAll(Tail(doc), old, new)

RECURSIVE MergeSections(_, _, _, _, _)
\* the loop of merge_revised_markdown over revised_sections.items()
MergeSections(updated, original, revised, sids, i) ==
    IF i > Len(sids) THEN updated
    ELSE IF \A j \in 1..Len(original) :
                ~(original[j].kind = "section" /\ original[j].id = sids[i])
    THEN MergeSections(updated, original, revised, sids, i + 1)
    ELSE IF SectionText(revised, sids[i]).inner \in {"", "unchanged"}
    THEN MergeSections(updated, original, revised, sids, i + 1)
    ELSE MergeSections(ReplaceAll(updated, SectionText(original, sids[i]),
                                  SectionText(revised, sids[i])),
                       original, revised, sids, i + 1)

merge_revised_markdown(original, revised) ==
    IF IsBlank(revised) THEN original
    ELSE IF SectionIds(revised, 1, <<>>) = <<>> THEN revised
    ELSE IF SectionIds(original, 1, <<>>) = <<>> THEN revised
    ELSE MergeSections(original, original, revised, SectionIds(revised, 1, <<>>), 1)

InitMerge ==
    /\ NoPipeline
    /\ arg \in [original : Documents, revised : Documents]
    /\ res = [done |-> FALSE, out |-> <<>>]

Merge ==
    /\ ~res.done
    /\ res' = [done |-> TRUE, out |-> merge_revised_markdown(arg.original, arg.revised)]
    /\ UNCHANGED <<pipeVars, arg>>

NextMerge == Merge

SpecMerge == InitMerge /\ [][NextMerge]_vars

\* C26: merge_revised_markdown(d, d) = d for every document d, with or
\* without section markers, blank or not.
C26_MergeIdempotent ==
    res.done /\ arg.original = arg.revised => res.out = arg.original

C26_Witness ==
    /\ res.done
    /\ arg.original = <<SectionChunk("s1", "x"), SectionChunk("s1", "y")>>
    /\ arg.revised = arg.original
    /\ res.out = arg.original

(***************************************************************************)
(* JobStoragePaths.relative.  A path string is its segments between        *)
(* slashes, whether it starts with a slash, and whether it is nothing but  *)
(* white space.                                                            *)
(***************************************************************************)
MaxSegments == 3

PathTokens == {"a", "b", "..", "."}

PathInputs ==
    [lead : BOOLEAN, space : {FALSE},
     segs : UNION {[1..n -> PathTokens] : n \in 0..MaxSegments}]
        \cup {[lead |-> FALSE, space |-> TRUE, segs |-> <<>>]}

RECURSIVE Normpath(_, _)
\* posixpath.normpath of a path without a leading slash: "." is dropped,
\* ".." removes the segment before it or stays when there is none
Normpath(segs, acc) ==
    IF segs = <<>> THEN acc
    ELSE IF segs[1] = "." THEN Normpath(Tail(segs), acc)
    ELSE IF segs[1] = ".." /\ acc # <<>> /\ acc[Len(acc)] # ".."
    THEN Normpath(Tail(segs), SubSeq(acc, 1, Len(acc) - 1))
    ELSE Normpath(Tail(segs), Append(acc, segs[1]))

Raised == [raised |-> TRUE, path |-> <<>>]
Returned(path) == [raised |-> FALSE, path |-> path]

\* _normalize_relative: strip, strip("/"), normpath, then the three checks;
\* the result is the path below the job root
_normalize_relative(r) ==
    IF r.space THEN Raised
    ELSE IF r.segs = <<>> /\ ~r.lead THEN Raised
    ELSE IF Normpath(r.segs, <<>>) = <<>> THEN Raised
    ELSE IF Normpath(r.segs, <<>>)[1] = ".." THEN Raised
    ELSE Returned(Normpath(r.segs, <<>>))

\* _join(relative): segments that are false in Python ("") are left out, and
\* with none left the job root itself is returned
_join(r) ==
    IF r.segs = <<>> /\ ~r.lead /\ ~r.space THEN Returned(<<>>)
    ELSE _normalize_relative(r)

relative(r) == _join(r)

InitPaths ==
    /\ NoPipeline
    /\ arg \in PathInputs
    /\ res = [done |-> FALSE, out |-> Raised]

Relative ==
    /\ ~res.done
    /\ res' = [done |-> TRUE, out |-> relative(arg)]
    /\ UNCHANGED <<pipeVars, arg>>

NextPaths == Relative

SpecPaths == InitPaths /\ [][NextPaths]_vars

\* the path is the empty string
IsEmptyPath(r) == r.segs = <<>> /\ ~r.lead /\ ~r.space

\* the path climbs above the directory it starts in
Ascends(r) == Normpath(r.segs, <<>>) # <<>> /\ Normpath(r.segs, <<>>)[1] = ".."

\* C27: relative(r) raises for every r that is empty, absolute or ascends
\* above the job root, and every path it returns lies under the job root.
C27_RelativeRejects ==
    res.done =>
        /\ (IsEmptyPath(arg) \/ arg.lead \/ Ascends(arg)) => res.out.raised
        /\ ~res.out.raised => \A i \in 1..Len(res.out.path) : res.out.path[i] \notin {"..", "."}

\* every path relative(r) returns lies under the job root
PathsStayUnderRoot ==
    res.done /\ ~res.out.raised =>
        \A i \in 1..Len(res.out.path) : res.out.path[i] \notin {"..", "."}

(***************************************************************************)
(* The diagram stages: diagram_prep, diagram_render and finalize.  The     *)
(* draft is the sequence of its PlantUML blocks, each with the id of its   *)
(* diagram_id comment ("none" without one) and a body; the plan lists the  *)
(* diagram_id of its diagram specs.                                        *)
(***************************************************************************)
MaxBlocks == 2
MaxDiagramFaults == 1

BlockIds == {"none", "A", "B"}
Bodies == {"ok", "bare", "empty", "mermaid", "fence", "fenceline"}
Blocks == [id : BlockIds, body : Bodies]
Drafts == UNION {[1..n -> Blocks] : n \in 0..MaxBlocks}
DiagramSpecs == {<<>>, <<"A">>, <<"A", "B">>}
IndexedIds == <<"diagram_1", "diagram_2", "diagram_3", "diagram_4">>
DiagramIds == {"A", "B"} \cup {IndexedIds[i] : i \in 1..Len(IndexedIds)}
NoBlock == [id |-> "none", body |-> "none"]
NoCodeBlocks == [d \in DiagramIds |-> NoBlock]

\* what the body of a block holds: a line that begins with @startuml, an
\* @enduml, a code fence inside a line, a line that begins with a code
\* fence, a Mermaid marker, anything besides markers and comments
Features(start, end, fence, fenceline, mermaid, content) ==
    [start |-> start, end |-> end, fence |-> fence, fenceline |-> fenceline,
     mermaid |-> mermaid, content |-> content]

BodyFeatures(body) ==
    CASE body = "ok" -> Features(TRUE, TRUE, FALSE, FALSE, FALSE, TRUE)
      [] body = "bare" -> Features(FALSE, FALSE, FALSE, FALSE, FALSE, TRUE)
      [] body = "empty" -> Features(FALSE, FALSE, FALSE, FALSE, FALSE, FALSE)
      [] body = "mermaid" -> Features(FALSE, FALSE, FALSE, FALSE, TRUE, TRUE)
      [] body = "fence" -> Features(TRUE, TRUE, TRUE, FALSE, FALSE, TRUE)
      [] body = "fenceline" -> Features(TRUE, TRUE, FALSE, TRUE, FALSE, TRUE)

\* _sanitize_source: lines that begin with a fence and diagram_id comments
\* are dropped, a body that never starts is wrapped in @startuml/@enduml,
\* a missing @enduml is appended
_sanitize_source(f) ==
    [f EXCEPT !.fenceline = FALSE, !.start = TRUE, !.end = TRUE]

\* _validate_plantuml_source that does not look for Mermaid
_validate_plantuml_source_nomermaid(f) ==
    (IF ~f.start THEN {"missing @startuml"} ELSE {})
        \cup (IF ~f.end THEN {"missing @enduml"} ELSE {})
        \cup (IF f.fence \/ f.fenceline THEN {"markdown code fences"} ELSE {})
        \cup (IF ~f.content THEN {"empty diagram body"} ELSE {})

\* _validate_plantuml_source: the list of issues
_validate_plantuml_source(f) ==
    (IF ~f.start THEN {"missing @startuml"} ELSE {})
        \cup (IF ~f.end THEN {"missing @enduml"} ELSE {})
        \cup (IF f.fence \/ f.fenceline THEN {"markdown code fences"} ELSE {})
        \cup (IF f.mermaid THEN {"Mermaid instead of PlantUML"} ELSE {})
        \cup (IF ~f.content THEN {"empty diagram body"} ELSE {})

\* _claim_spec: the spec of that id, else the first spec not yet used;
\* the index of the spec (0 for None) and the used set afterwards
_claim_spec(spec_id, specs, used) ==
    IF spec_id # "none" /\ \E i \in 1..Len(specs) : specs[i] = spec_id
    THEN [spec |-> CHOOSE i \in 1..Len(specs) : specs[i] = spec_id,
          used |-> used \cup {CHOOSE i \in 1..Len(specs) : specs[i] = spec_id}]
    ELSE IF \E i \in 1..Len(specs) : i \notin used
    THEN [spec |-> CHOOSE i \in 1..Len(specs) :
                        i \notin used /\ \A j \in 1..(i - 1) : j \in used,
          used |-> used \cup {CHOOSE i \in 1..Len(specs) :
                                i \notin used /\ \A j \in 1..(i - 1) : j \in used}]
    ELSE [spec |-> 0, used |-> used]

\* the diagram_id of a block: its comment, else the id of the claimed spec,
\* else diagram_<idx>
DiagramIdOf(block, idx, spec, specs) ==
    IF block.id # "none" THEN block.id
    ELSE IF spec # 0 THEN specs[spec]
    ELSE IndexedIds[idx]

\* a render request; blob_path and source_path are derived from the id
Request(diagram_id) == [diagram_id |-> diagram_id, blob_path |-> diagram_id]

NoPrep == [failed |-> FALSE, requests |-> <<>>, code_blocks |-> NoCodeBlocks]

RECURSIVE PrepLoop(_, _, _, _, _, _)
\* the loop of process_diagram_prep over the blocks: an invalid block ends
\* the stage, a block whose source upload fails (putFailAt) is skipped
PrepLoop(blocks, idx, specs, used, acc, putFailAt) ==
    IF idx > Len(blocks) THEN acc
    ELSE IF _validate_plantuml_source(_sanitize_source(BodyFeatures(blocks[idx].body))) # {}
    THEN [acc EXCEPT !.failed = TRUE]
    ELSE IF idx = putFailAt
    THEN PrepLoop(blocks, idx + 1, specs,
                  _claim_spec(blocks[idx].id, specs, used).used, acc, putFailAt)
    ELSE PrepLoop(blocks, idx + 1, specs,
                  _claim_spec(blocks[idx].id, specs, used).used,
                  [acc EXCEPT
                     !.requests = Append(@, Request(DiagramIdOf(blocks[idx], idx,
                                    _claim_spec(blocks[idx].id, specs, used).spec, specs))),
                     !.code_blocks[DiagramIdOf(blocks[idx], idx,
                                    _claim_spec(blocks[idx].id, specs, used).spec, specs)]
                                        = blocks[idx]],
                  putFailAt)

\* the result of one handler: did it return, what it published and sent
Handled(ok, evs, sends) == [ok |-> ok, evs |-> evs, sends |-> sends]

\* {**data, "diagram_code_blocks": ..., "diagram_results": ...}
DiagramPayload(data, code_blocks, results) ==
    [unknown |-> data.unknown, diagram_code_blocks |-> code_blocks,
     diagram_results |-> results]

\* the no-diagram branch sending to diagram_render as well
prep_skip_both(data, sendOk) ==
    IF ~sendOk THEN Handled(FALSE, <<>>, <<>>)
    ELSE Handled(TRUE, <<"DIAGRAM_SKIPPED", "FINALIZE_QUEUED">>,
                 <<[q |-> "finalize_ready", p |-> DiagramPayload(data, NoCodeBlocks, <<>>)],
                   [q |-> "diagram_render", p |-> DiagramPayload(data, NoCodeBlocks, <<>>)]>>)

\* process_diagram_prep when the draft has no diagram
prep_skip(data, sendOk) ==
    IF ~sendOk THEN Handled(FALSE, <<>>, <<>>)
    ELSE Handled(TRUE, <<"DIAGRAM_SKIPPED", "FINALIZE_QUEUED">>,
                 <<[q |-> "finalize_ready", p |-> DiagramPayload(data, NoCodeBlocks, <<>>)]>>)

\* process_diagram_prep after its loop
prep_queue(data, prep, sendOk) ==
    IF prep.failed THEN Handled(TRUE, <<"DIAGRAM_FAILED">>, <<>>)
    ELSE IF ~sendOk THEN Handled(FALSE, <<>>, <<>>)
    ELSE Handled(TRUE, <<"DIAGRAM_QUEUED">>,
                 <<[q |-> "diagram_render",
                    p |-> [diagram_requests |-> prep.requests,
                           finalize_payload |->
                               DiagramPayload(data, prep.code_blocks, <<>>)]]>>)

process_diagram_prep(data, blocks, specs, putFailAt, sendOk) ==
    IF blocks = <<>> THEN prep_skip(data, sendOk)
    ELSE prep_queue(data, PrepLoop(blocks, 1, specs, {}, NoPrep, putFailAt), sendOk)

\* an entry of diagram_results for a rendered diagram
RenderedEntry(request, code_blocks) ==
    [diagram_id |-> request.diagram_id, blob_path |-> request.blob_path,
     relative_path |-> request.blob_path,
     code_block |-> code_blocks[request.diagram_id], error |-> FALSE]

\* a fallback entry that keeps the blob_path of the request
FallbackEntry_path(request, code_blocks) ==
    [diagram_id |-> request.diagram_id, blob_path |-> request.blob_path,
     relative_path |-> "none",
     code_block |-> code_blocks[request.diagram_id], error |-> TRUE]

\* an entry of the fallback_results after a failure
FallbackEntry(request, code_blocks) ==
    [diagram_id |-> request.diagram_id, blob_path |-> "none",
     relative_path |-> "none",
     code_block |-> code_blocks[request.diagram_id], error |-> TRUE]

\* a payload built without the finalize_payload of the message
RenderPayload_fresh(finalize_payload, results) ==
    [unknown |-> "none", diagram_code_blocks |-> finalize_payload.diagram_code_blocks,
     diagram_results |-> results]

\* {**finalize_payload, "diagram_results": results}
RenderPayload(finalize_payload, results) ==
    [finalize_payload EXCEPT !.diagram_results = results]

\* process_diagram_render: every request rendered, or DiagramRenderError at
\* request failAt (0: none); the send of the fallback swallows its error.
\* The send and the two publish_stage_event calls after it are inside the
\* try: an exception after the send (publishOk false) is caught by
\* "except Exception", which publishes DIAGRAM_FAILED and sends the
\* fallback results as well.
process_diagram_render(msg, failAt, sendOk, publishOk) ==
    IF failAt = 0
    THEN IF sendOk /\ ~publishOk
         THEN Handled(TRUE, <<"DIAGRAM_START", "DIAGRAM_FAILED", "FINALIZE_QUEUED">>,
                <<[q |-> "finalize_ready",
                   p |-> RenderPayload(msg.finalize_payload,
                            [i \in 1..Len(msg.diagram_requests) |->
                                RenderedEntry(msg.diagram_requests[i],
                                    msg.finalize_payload.diagram_code_blocks)])],
                  [q |-> "finalize_ready",
                   p |-> RenderPayload(msg.finalize_payload,
                            [i \in 1..Len(msg.diagram_requests) |->
                                FallbackEntry(msg.diagram_requests[i],
                                    msg.finalize_payload.diagram_code_blocks)])]>>)
         ELSE IF sendOk
         THEN Handled(TRUE, <<"DIAGRAM_START", "DIAGRAM_DONE", "FINALIZE_QUEUED">>,
                <<[q |-> "finalize_ready",
                   p |-> RenderPayload(msg.finalize_payload,
                            [i \in 1..Len(msg.diagram_requests) |->
                                RenderedEntry(msg.diagram_requests[i],
                                    msg.finalize_payload.diagram_code_blocks)])]>>)
         ELSE Handled(TRUE, <<"DIAGRAM_START", "DIAGRAM_FAILED">>, <<>>)
    ELSE Handled(TRUE, <<"DIAGRAM_START", "DIAGRAM_FAILED", "FINALIZE_QUEUED">>,
            <<[q |-> "finalize_ready",
               p |-> RenderPayload(msg.finalize_payload,
                        [i \in 1..Len(msg.diagram_requests) |->
                            FallbackEntry(msg.diagram_requests[i],
                                msg.finalize_payload.diagram_code_blocks)])]>>)

\* the image link that takes the place of a block
ImageLink(path) == [id |-> "image", body |-> path]

\* str.replace(old, new, 1) on the block at position i
ReplaceAt(doc, i, new) == [doc EXCEPT ![i] = new]

FirstIndex(doc, Test(_)) ==
    CHOOSE i \in 1..Len(doc) : Test(doc[i]) /\ \A j \in 1..(i - 1) : ~Test(doc[j])

\* one item of the loop of _apply_diagram_results: the code block itself if
\* it is in the text, else the first block with a comment of that id
ApplyItem(updated, item) ==
    IF item.code_block = NoBlock
        \/ (item.relative_path = "none" /\ item.blob_path = "none")
    THEN updated
    ELSE IF \E i \in 1..Len(updated) : updated[i] = item.code_block
    THEN ReplaceAt(updated, FirstIndex(updated, LAMBDA b : b = item.code_block),
                   ImageLink(IF item.relative_path # "none" THEN item.relative_path
                             ELSE item.blob_path))
    ELSE IF \E i \in 1..Len(updated) : updated[i].id = item.diagram_id
    THEN ReplaceAt(updated, FirstIndex(updated, LAMBDA b : b.id = item.diagram_id),
                   ImageLink(IF item.relative_path # "none" THEN item.relative_path
                             ELSE item.blob_path))
    ELSE updated

RECURSIVE _apply_diagram_results(_, _, _)
_apply_diagram_results(text, results, i) ==
    IF i > Len(results) THEN text
    ELSE _apply_diagram_results(ApplyItem(text, results[i]), results, i + 1)

NoFinal == [written |-> FALSE, doc |-> <<>>]

\* process_finalize: a failed read or write is logged, FINALIZE_DONE is
\* published in either case
process_finalize(msg, text, fault) ==
    [ok |-> TRUE, evs |-> <<"FINALIZE_DONE">>, sends |-> <<>>,
     final |-> IF fault = "none"
               THEN [written |-> TRUE,
                     doc |-> _apply_diagram_results(text, msg.diagram_results, 1)]
               ELSE NoFinal]

\* the fields a stage adds to or takes from the message it forwards; the
\* other fields of {**data, ...} stay as they are
WithKeys(data, added) == [data EXCEPT !.keys = @ \cup added]
WithoutKeys(data, dropped) == [data EXCEPT !.keys = @ \ dropped]

\* _strip_review_payload
_strip_review_payload(data) ==
    WithoutKeys(data, {"review_progress", "review_json", "style_json",
                       "cohesion_json", "exec_summary_json"})

SendRecord(q, p) == [q |-> q, p |-> p]

\* the queue after a review queue
ReviewSuccessor(stage) ==
    CASE stage = "review_general" -> "review_style"
      [] stage = "review_style" -> "review_cohesion"
      [] stage = "review_cohesion" -> "review_summary"
      [] stage = "review_summary" -> "verify"

CoreStages == {"plan", "write", "review_general", "review_style",
               "review_cohesion", "review_summary", "verify", "rewrite"}

\* the messages a stage before diagram_prep can send on: to itself with
\* batches left, to its successor, to diagram_prep with the cycles used up
CoreSuccessors(stage, data) ==
    CASE stage = "plan" ->
            {SendRecord("write", WithKeys(data, {"plan", "dependency_summaries",
                                                 "intake_answers"}))}
      [] stage = "write" ->
            {SendRecord("write", WithKeys(data, {"out", "dependency_summaries",
                                "written_sections", "write_tokens_total"})),
             SendRecord("review_general", _strip_review_payload(
                    WithKeys(data, {"out", "dependency_summaries",
                                    "write_tokens_total"})))}
      [] stage = "verify" ->
            {SendRecord("rewrite", WithKeys(data, {"verification_json",
                                "placeholder_sections", "requires_rewrite"}))}
      [] stage = "rewrite" ->
            {SendRecord("rewrite", WithKeys(data, {"out", "requires_rewrite",
                                "rewritten_sections", "dependency_summaries",
                                "placeholder_sections"}))}
            \cup {SendRecord(q, WithoutKeys(WithKeys(data, {"placeholder_sections",
                                "rewritten_sections", "requires_rewrite"}),
                                {"review_progress"})) :
                        q \in {"review_general", "diagram_prep"}}
      [] OTHER ->
            {SendRecord(stage, _strip_review_payload(data)),
             SendRecord(ReviewSuccessor(stage), _strip_review_payload(data)),
             SendRecord("diagram_prep", data)}

\* a message arrives at plan
InitDiagram ==
    /\ NoPipeline
    /\ arg \in [blocks : Drafts, specs : DiagramSpecs, unknown : {"u"}]
    /\ res = [stage |-> "plan", msg |-> [unknown |-> arg.unknown, keys |-> {}],
              last |-> "none", ok |-> TRUE, evs |-> <<>>, sends |-> <<>>,
              faults |-> 0, putFailed |-> FALSE, renderFailed |-> FALSE,
              requests |-> <<>>, final |-> NoFinal]

\* where the job is after a handler: on the queue it sent to, on the same
\* queue again when the handler raised, else nowhere
StageAfter(stage, o) ==
    IF o.sends # <<>> THEN o.sends[1].q
    ELSE IF o.ok THEN "stuck" ELSE stage

PrepStep(o, fault, putFailed) ==
    /\ fault => res.faults < MaxDiagramFaults
    /\ res' = [res EXCEPT !.stage = StageAfter("diagram_prep", o),
                          !.msg = IF o.sends # <<>> THEN o.sends[1].p ELSE @,
                          !.last = "diagram_prep", !.ok = o.ok, !.evs = o.evs,
                          !.sends = o.sends,
                          !.faults = IF fault THEN @ + 1 ELSE @,
                          !.putFailed = putFailed,
                          !.requests = IF o.sends # <<>> /\ o.sends[1].q = "diagram_render"
                                       THEN o.sends[1].p.diagram_requests ELSE <<>>]
    /\ UNCHANGED <<pipeVars, arg>>

DiagramPrep ==
    /\ res.stage = "diagram_prep"
    /\ \E putFailAt \in 0..Len(arg.blocks), sendOk \in BOOLEAN :
        /\ putFailAt = 0 \/ sendOk
        /\ PrepStep(process_diagram_prep(res.msg, arg.blocks, arg.specs,
                                         putFailAt, sendOk),
                    putFailAt # 0 \/ ~sendOk, putFailAt # 0)

RenderStep(o, fault, renderFailed) ==
    /\ fault => res.faults < MaxDiagramFaults
    /\ res' = [res EXCEPT !.stage = StageAfter("diagram_render", o),
                          !.msg = IF o.sends # <<>> THEN o.sends[1].p ELSE @,
                          !.last = "diagram_render", !.ok = o.ok, !.evs = o.evs,
                          !.sends = o.sends,
                          !.faults = IF fault THEN @ + 1 ELSE @,
                          !.renderFailed = renderFailed]
    /\ UNCHANGED <<pipeVars, arg>>

DiagramRender ==
    /\ res.stage = "diagram_render"
    /\ \E failAt \in 0..Len(res.msg.diagram_requests), publishOk \in BOOLEAN :
        /\ ~publishOk => failAt = 0
        /\ RenderStep(process_diagram_render(res.msg, failAt, TRUE, publishOk),
                      failAt # 0 \/ ~publishOk, failAt # 0)

FinalizeStep(o, fault) ==
    /\ fault => res.faults < MaxDiagramFaults
    /\ res' = [res EXCEPT !.stage = "done", !.last = "finalize", !.ok = o.ok,
                          !.evs = o.evs, !.sends = o.sends, !.final = o.final,
                          !.faults = IF fault THEN @ + 1 ELSE @]
    /\ UNCHANGED <<pipeVars, arg>>

Finalize ==
    /\ res.stage = "finalize_ready"
    /\ \E fault \in StorageFaults :
        FinalizeStep(process_finalize(res.msg, arg.blocks, fault), fault # "none")

\* a stage before diagram_prep handles its message and sends one on
CoreHop ==
    /\ res.stage \in CoreStages
    /\ \E s \in CoreSuccessors(res.stage, res.msg) :
        res' = [res EXCEPT !.stage = s.q, !.msg = s.p, !.last = res.stage,
                           !.ok = TRUE, !.evs = <<>>, !.sends = <<s>>]
    /\ UNCHANGED <<pipeVars, arg>>

NextDiagram == CoreHop \/ DiagramPrep \/ DiagramRender \/ Finalize

SpecDiagram == InitDiagram /\ [][NextDiagram]_vars

\* C23: a draft without a PlantUML block makes diagram_prep send exactly
\* one message, to finalize_ready and with an empty diagram_results, publish
\* DIAGRAM_SKIPPED and send nothing to diagram_render.
C23_NoDiagramSkipsRender ==
    (res.last = "diagram_prep" /\ res.ok /\ arg.blocks = <<>>) =>
        /\ Len(res.sends) = 1
        /\ res.sends[1].q = "finalize_ready"
        /\ res.sends[1].p.diagram_results = <<>>
        /\ "DIAGRAM_SKIPPED" \in Range(res.evs)

C23_Witness ==
    /\ res.last = "diagram_prep" /\ res.ok /\ arg.blocks = <<>>
    /\ res.stage = "finalize_ready"

\* a block that is invalid after sanitisation: a code fence, a Mermaid
\* marker, no @startuml or @enduml, or an empty body
InvalidAfterSanitisation(block) ==
    \/ _sanitize_source(BodyFeatures(block.body)).fence
    \/ _sanitize_source(BodyFeatures(block.body)).fenceline
    \/ _sanitize_source(BodyFeatures(block.body)).mermaid
    \/ ~_sanitize_source(BodyFeatures(block.body)).start
    \/ ~_sanitize_source(BodyFeatures(block.body)).end
    \/ ~_sanitize_source(BodyFeatures(block.body)).content

\* C22: when a PlantUML block is invalid after sanitisation, diagram_prep
\* publishes DIAGRAM_FAILED and sends neither to diagram_render nor to
\* finalize_ready.
C22_InvalidBlockFailsPrep ==
    (/\ res.last = "diagram_prep"
     /\ \E i \in 1..Len(arg.blocks) : InvalidAfterSanitisation(arg.blocks[i])) =>
        /\ "DIAGRAM_FAILED" \in Range(res.evs)
        /\ res.sends = <<>>
        /\ res.stage = "stuck"

C22_Witness ==
    /\ res.last = "diagram_prep" /\ res.stage = "stuck"
    /\ Len(arg.blocks) = 2
    /\ ~InvalidAfterSanitisation(arg.blocks[1])
    /\ arg.blocks[2].body = "mermaid"

C25_EveryBlockReplacedByItsImage ==
    (res.last = "finalize" /\ res.faults = 0 /\ res.final.written) =>
        /\ Len(res.final.doc) = Len(arg.blocks)
        /\ \A i \in 1..Len(arg.blocks) :
            Cardinality({k \in 1..Len(res.msg.diagram_results) :
                    /\ arg.blocks[i].id \in {"none", res.msg.diagram_results[k].diagram_id}
                    /\ res.final.doc[i] =
                        ImageLink(res.msg.diagram_results[k].relative_path)}) = 1

C30_FinalizeDoneOnlyOnSuccess ==
    (res.last = "finalize" /\ "FINALIZE_DONE" \in Range(res.evs)) => res.final.written

(***************************************************************************)
(* _build_batch_context and _plan_review_batches as functions of their     *)
(* arguments: the ordered ids, the completed set, the sections of the      *)
(* draft (id -> size of the text, 0 when the draft has no such section),   *)
(* the dependencies of the outline entries and the settings.               *)
(***************************************************************************)
MaxIds == 3
MaxBatchSize == 3
TokenCap == 4
StubSize == 1
BatchIds == {"s1", "s2", "s3"}
TextSizes == {0, 1, 3}
IdLists == UNION {[1..n -> BatchIds] : n \in 0..MaxIds}
NoDependencies == [s \in BatchIds |-> <<>>]
SharedDependencies == [s \in BatchIds |->
                        CASE s = "s1" -> <<>>
                          [] s = "s2" -> <<"s1">>
                          [] s = "s3" -> <<"s1", "s2">>]
OddDependencies == [s \in BatchIds |->
                        CASE s = "s1" -> <<"zz", "zz">>
                          [] s = "s2" -> <<"s2", "s1">>
                          [] s = "s3" -> <<"s1", "zz">>]
DependencyChoices == {NoDependencies, SharedDependencies, OddDependencies}

RECURSIVE AddDeps(_, _, _, _)
\* the inner loop of _build_batch_context over the dependencies of one
\* section: a dependency in the batch or seen before is passed over
AddDeps(deps, j, dep_ids, batch_ids) ==
    IF j > Len(deps) THEN dep_ids
    ELSE IF deps[j] \in Range(batch_ids) \/ deps[j] \in Range(dep_ids)
    THEN AddDeps(deps, j + 1, dep_ids, batch_ids)
    ELSE AddDeps(deps, j + 1, Append(dep_ids, deps[j]), batch_ids)

RECURSIVE DepIds(_, _, _, _)
\* the outer loop over the batch
DepIds(batch_ids, i, dep_ids, id_to_section) ==
    IF i > Len(batch_ids) THEN dep_ids
    ELSE DepIds(batch_ids, i + 1,
                AddDeps(id_to_section[batch_ids[i]], 1, dep_ids, batch_ids),
                id_to_section)

Stub(dep) == [kind |-> "stub", id |-> dep]
Text(sid) == [kind |-> "text", id |-> sid]

RECURSIVE TextParts(_, _, _)
\* a section text followed by the one before it again
TextParts_twice(batch_ids, i, sections) ==
    IF i > Len(batch_ids) THEN <<>>
    ELSE IF sections[batch_ids[i]] = 0 THEN TextParts(batch_ids, i + 1, sections)
    ELSE <<Text(batch_ids[i]), Text(batch_ids[1])>> \o TextParts(batch_ids, i + 1, sections)

\* the texts of the batched sections that the draft has
TextParts(batch_ids, i, sections) ==
    IF i > Len(batch_ids) THEN <<>>
    ELSE IF sections[batch_ids[i]] = 0 THEN TextParts(batch_ids, i + 1, sections)
    ELSE <<Text(batch_ids[i])>> \o TextParts(batch_ids, i + 1, sections)

\* the parts of the combined text and the dependency ids
BatchContext(batch_ids, sections, id_to_section) ==
    [dep_ids |-> DepIds(batch_ids, 1, <<>>, id_to_section),
     parts |-> [i \in 1..Len(DepIds(batch_ids, 1, <<>>, id_to_section)) |->
                    Stub(DepIds(batch_ids, 1, <<>>, id_to_section)[i])]
               \o TextParts(batch_ids, 1, sections)]

RECURSIVE _estimate_tokens(_, _, _)
\* the estimated tokens of a combined text
_estimate_tokens(parts, i, sections) ==
    IF i > Len(parts) THEN 0
    ELSE (IF parts[i].kind = "stub" THEN StubSize ELSE sections[parts[i].id])
         + _estimate_tokens(parts, i + 1, sections)

CandidateTokens(candidate, sections, id_to_section) ==
    _estimate_tokens(BatchContext(candidate, sections, id_to_section).parts, 1, sections)

RECURSIVE ReviewBatches(_, _, _, _, _, _)
\* the loop of _plan_review_batches without the token limit
ReviewBatches_nolimit(rem, current, batches, sections, id_to_section, settings) ==
    IF rem = <<>> THEN (IF current # <<>> THEN Append(batches, current) ELSE batches)
    ELSE IF current # <<>> /\ Len(current) + 1 > Max(1, settings.review_batch_size)
    THEN IF 1 >= Max(1, settings.review_batch_size)
         THEN ReviewBatches(Tail(rem), <<>>, batches \o <<current, <<Head(rem)>>>>,
                            sections, id_to_section, settings)
         ELSE ReviewBatches(Tail(rem), <<Head(rem)>>, Append(batches, current),
                            sections, id_to_section, settings)
    ELSE IF Len(current) + 1 >= Max(1, settings.review_batch_size)
         THEN ReviewBatches(Tail(rem), <<>>, Append(batches, Append(current, Head(rem))),
                            sections, id_to_section, settings)
         ELSE ReviewBatches(Tail(rem), Append(current, Head(rem)), batches,
                            sections, id_to_section, settings)

\* the loop of _plan_review_batches over the remaining ids
ReviewBatches(rem, current, batches, sections, id_to_section, settings) ==
    IF rem = <<>> THEN (IF current # <<>> THEN Append(batches, current) ELSE batches)
    ELSE IF current # <<>>
            /\ (\/ CandidateTokens(Append(current, Head(rem)), sections, id_to_section)
                        > Max(1, settings.review_max_prompt_tokens)
                \/ Len(current) + 1 > Max(1, settings.review_batch_size))
    THEN IF 1 >= Max(1, settings.review_batch_size)
         THEN ReviewBatches(Tail(rem), <<>>, batches \o <<current, <<Head(rem)>>>>,
                            sections, id_to_section, settings)
         ELSE ReviewBatches(Tail(rem), <<Head(rem)>>, Append(batches, current),
                            sections, id_to_section, settings)
    ELSE IF Len(current) + 1 >= Max(1, settings.review_batch_size)
         THEN ReviewBatches(Tail(rem), <<>>, Append(batches, Append(current, Head(rem))),
                            sections, id_to_section, settings)
         ELSE ReviewBatches(Tail(rem), Append(current, Head(rem)), batches,
                            sections, id_to_section, settings)

PlanReviewBatches(ordered_section_ids, completed_ids, sections, id_to_section, settings) ==
    ReviewBatches(SelectNotIn(ordered_section_ids, completed_ids), <<>>, <<>>,
                  sections, id_to_section, settings)

NoBatches == [done |-> "none", batches |-> <<>>, ctx |-> [dep_ids |-> <<>>, parts |-> <<>>]]

InitBatch ==
    /\ NoPipeline
    /\ arg \in [ordered : IdLists, completed : SUBSET BatchIds,
                sections : [BatchIds -> TextSizes], id_to_section : DependencyChoices,
                settings : [review_batch_size : 1..MaxBatchSize,
                            review_max_prompt_tokens : {TokenCap}]]
    /\ res = NoBatches

\* _plan_review_batches is called
PlanReview ==
    /\ res.done = "none"
    /\ res' = [res EXCEPT !.done = "plan",
                 !.batches = PlanReviewBatches(arg.ordered, arg.completed, arg.sections,
                                               arg.id_to_section, arg.settings)]
    /\ UNCHANGED <<pipeVars, arg>>

\* _build_batch_context is called with the ordered ids as the batch
BuildContext ==
    /\ res.done = "none"
    /\ res' = [res EXCEPT !.done = "context",
                 !.ctx = BatchContext(arg.ordered, arg.sections, arg.id_to_section)]
    /\ UNCHANGED <<pipeVars, arg>>

NextBatch == PlanReview \/ BuildContext

SpecBatch == InitBatch /\ [][NextBatch]_vars

RECURSIVE Concat(_, _)
Concat(seqs, i) == IF i > Len(seqs) THEN <<>> ELSE seqs[i] \o Concat(seqs, i + 1)

\* C31: _plan_review_batches returns non-empty batches whose concatenation
\* is the ids not yet completed in their order, each of at most
\* review_batch_size ids, and every batch of two or more ids has an
\* estimated prompt within review_max_prompt_tokens.
C31_BatchesPartitionRemaining ==
    res.done = "plan" =>
        /\ Concat(res.batches, 1) = SelectNotIn(arg.ordered, arg.completed)
        /\ \A k \in 1..Len(res.batches) :
            /\ res.batches[k] # <<>>
            /\ Len(res.batches[k]) <= arg.settings.review_batch_size
            /\ Len(res.batches[k]) >= 2 =>
                CandidateTokens(res.batches[k], arg.sections, arg.id_to_section)
                    <= arg.settings.review_max_prompt_tokens

C31_Witness ==
    /\ res.done = "plan" /\ Len(res.batches) = 2
    /\ Len(res.batches[1]) = 1 /\ Len(res.batches[2]) = 2
    /\ arg.settings.review_batch_size = 3
    /\ CandidateTokens(res.batches[1], arg.sections, arg.id_to_section) > TokenCap

NoDuplicates(seq) == \A i, j \in 1..Len(seq) : seq[i] = seq[j] => i = j

\* the dependencies of the batched sections that lie outside the batch
OutsideDependencies(batch_ids, id_to_section) ==
    UNION {Range(id_to_section[batch_ids[i]]) : i \in 1..Len(batch_ids)}
        \ Range(batch_ids)

\* C32: _build_batch_context returns every dependency of a batched section
\* that lies outside the batch exactly once and in first-seen order, none
\* that is in the batch, and the text of each batched section exactly once.
C32_ContextListsEachOnce ==
    (res.done = "context" /\ NoDuplicates(arg.ordered)) =>
        /\ Range(res.ctx.dep_ids) = OutsideDependencies(arg.ordered, arg.id_to_section)
        /\ NoDuplicates(res.ctx.dep_ids)
        /\ res.ctx.dep_ids = FirstOccurrences(
                SelectNotIn(Concat([i \in 1..Len(arg.ordered) |->
                                        arg.id_to_section[arg.ordered[i]]], 1),
                            Range(arg.ordered)), {})
        /\ \A i \in 1..Len(arg.ordered) :
            arg.sections[arg.ordered[i]] # 0 =>
                Cardinality({k \in 1..Len(res.ctx.parts) :
                                res.ctx.parts[k] = Text(arg.ordered[i])}) = 1

C32_Witness ==
    /\ res.done = "context" /\ arg.ordered = <<"s2", "s3">>
    /\ arg.id_to_section = SharedDependencies
    /\ res.ctx.dep_ids = <<"s1">>
    /\ arg.sections["s2"] # 0 /\ arg.sections["s3"] # 0

\* C33: a write invocation that returns writes the next
\* min(write_batch_size, number unwritten) unwritten sections and sends
\* exactly one message: to write, with WRITE_IN_PROGRESS, if and only if an
\* outline section is still unwritten, else to review_general, with
\* WRITE_DONE.
C33_WriteBatchThenOneMessage ==
    (last.stage = "write" /\ last.ok) =>
        /\ last.order = SubSeq(SelectNotIn(topological_order, last.before), 1,
                               Min(write_batch_size, Cardinality(Sections \ last.before)))
        /\ last.after = last.before \cup Range(last.order)
        /\ Len(last.sends) = 1
        /\ IF Sections \ last.after # {}
           THEN /\ last.sends[1].q = "write"
                /\ "WRITE_IN_PROGRESS" \in Range(last.evs)
                /\ "WRITE_DONE" \notin Range(last.evs)
           ELSE /\ last.sends[1].q = "review_general"
                /\ "WRITE_DONE" \in Range(last.evs)
                /\ "WRITE_IN_PROGRESS" \notin Range(last.evs)

C33_Witness ==
    /\ last.stage = "write" /\ last.ok
    /\ last.before # {} /\ Len(last.order) = 1
    /\ last.sends[1].q = "review_general"

\* rewrite messages that require a rewrite and the artifacts of the cycle
\* they meet: contradictions with ids inside and outside the outline, a
\* style and a cohesion artifact that is missing, has no section_id, or
\* names sections, and any set of placeholder sections
AffectedCases ==
    {[p |-> [Payload(CycleFields(MaxCycles, 0)) EXCEPT
                !.requires_rewrite = TRUE, !.placeholder_sections = ph,
                !.verification = contra],
      st |-> [draft |-> topological_order,
              progress |-> [c \in Cycles |-> _init_review_progress],
              styleJson |-> [c \in Cycles |-> style],
              cohesionJson |-> [c \in Cycles |-> cohesion],
              contraJson |-> [c \in Cycles |-> Blob(contra)]]] :
        ph \in SUBSET Sections, contra \in SUBSET SecIds,
        style \in {NoBlob} \cup {Blob(ids) : ids \in SUBSET Sections},
        cohesion \in {NoBlob, Blob({}), Blob({"s2"})}}

NoAffected == [done |-> FALSE, affected |-> {},
               inputs |-> [contra |-> {}, guided |-> {}, placeholders |-> {},
                           guidance |-> FALSE]]

InitAffected ==
    /\ NoPipeline
    /\ arg \in AffectedCases
    /\ res = NoAffected

\* process_rewrite computes the affected set of the message
ComputeAffected ==
    /\ ~res.done
    /\ res' = [done |-> TRUE,
               affected |-> RewriteAffected(arg.p, EmptyTable, arg.st),
               inputs |-> AffectedInputs(arg.p, arg.st, 1)]
    /\ UNCHANGED <<pipeVars, arg>>

NextAffected == ComputeAffected

SpecAffected == InitAffected /\ [][NextAffected]_vars

\* the affected set as stated: the union of the three sets, all sections
\* only when the whole union is empty and a guidance text exists
StatedAffected(inputs) ==
    IF inputs.contra \cup inputs.guided \cup inputs.placeholders = {} /\ inputs.guidance
    THEN Sections
    ELSE inputs.contra \cup inputs.guided \cup inputs.placeholders

\* C34: with requires_rewrite the set of sections to rewrite is the section
\* ids of the contradictions, of the style and cohesion guidance and the
\* placeholder_sections together, and all outline sections only when that
\* whole union is empty while a guidance text exists.
C34_AffectedSetIsUnion ==
    res.done => res.affected = StatedAffected(res.inputs)

\* C38: a rewrite that sends itself on has left fewer affected sections
\* outside rewritten_sections than it found, so that the stage ends with
\* REWRITE_DONE after finitely many rounds, also for section ids that are
\* not in the outline.
C38_RewriteRoundsShrink ==
    (last.stage = "rewrite" /\ last.ok /\ ~last.complete) =>
        /\ (last.affected \ last.after) \subseteq (last.affected \ last.before)
        /\ (last.affected \ last.after) # (last.affected \ last.before)

\* C35: the result of merge_revised_markdown holds the sections of exactly
\* the ids that the original holds, whatever the revised text is.
C35_MergeKeepsSectionIds ==
    res.done =>
        Range(SectionIds(res.out, 1, <<>>)) = Range(SectionIds(arg.original, 1, <<>>))

(***************************************************************************)
(* _render_with_plantuml for one diagram: whether the server is            *)
(* configured, what the server answers to each request, and what the       *)
(* regeneration callback does.                                             *)
(***************************************************************************)
MaxAttempts == 3
RegenKinds == {"absent", "source", "nothing", "raises"}

InitRender ==
    /\ NoPipeline
    /\ arg \in [configured : BOOLEAN, renders : [1..MaxAttempts -> BOOLEAN],
                regen : RegenKinds]
    /\ res = [status |-> "called", attempt |-> 0, calls |-> 0, regens |-> 0,
              source |-> "stored"]

\* the check of PLANTUML_SERVER_URL before the loop
CheckServer ==
    /\ res.status = "called"
    /\ res' = [res EXCEPT !.status = IF arg.configured THEN "rendering" ELSE "failed"]
    /\ UNCHANGED <<pipeVars, arg>>

\* the callback is called after every failure
Regenerates_always(attempt, regen) == regen # "absent"

\* regen_after_second_failure and attempt == 0
Regenerates(attempt, regen) == regen # "absent" /\ attempt = 0

\* one pass of `for attempt in range(3)`: the request, and after a failure
\* the regeneration of the source; the error is raised after the last pass
RenderAttempt ==
    /\ res.status = "rendering"
    /\ res.attempt < MaxAttempts
    /\ res' = IF arg.renders[res.attempt + 1]
              THEN [res EXCEPT !.status = "returned", !.calls = @ + 1]
              ELSE [res EXCEPT
                      !.calls = @ + 1,
                      !.regens = IF Regenerates(res.attempt, arg.regen) THEN @ + 1 ELSE @,
                      !.source = IF Regenerates(res.attempt, arg.regen)
                                    /\ arg.regen = "source"
                                 THEN "regenerated" ELSE @,
                      !.attempt = @ + 1,
                      !.status = IF res.attempt + 1 = MaxAttempts THEN "failed" ELSE @]
    /\ UNCHANGED <<pipeVars, arg>>

NextRender == CheckServer \/ RenderAttempt

SpecRender == InitRender /\ [][NextRender]_vars

MaxNodes == 3
IdPool == {"s1", "s2", "s10", "s01", "intro"}
Digits(value, rank) == [c |-> 0, v |-> value, s |-> rank]
Chars(rank) == [c |-> 1, v |-> rank, s |-> rank]

\* SECTION_TOKEN_RE.findall(section_id); "01" < "1" < "10" < "2" and
\* "intro" < "s" as strings
Tokens(section_id) ==
    CASE section_id = "s1" -> <<Chars(3), Digits(1, 2)>>
      [] section_id = "s2" -> <<Chars(3), Digits(2, 4)>>
      [] section_id = "s10" -> <<Chars(3), Digits(10, 3)>>
      [] section_id = "s01" -> <<Chars(3), Digits(1, 1)>>
      [] section_id = "intro" -> <<Chars(2)>>

\* _section_sort_key: (0, int(token)) for digits, (1, token) otherwise,
\* then (2, fallback_index)
SortKey(section_id, fallback_index) ==
    Append(Tokens(section_id), [c |-> 2, v |-> fallback_index, s |-> fallback_index])

\* a comparison that takes runs of digits as strings
ElemLess_text(x, y) == x.c < y.c \/ (x.c = y.c /\ x.s < y.s)

\* the order of two elements of a key: tuples (class, value)
ElemLess(x, y) == x.c < y.c \/ (x.c = y.c /\ x.v < y.v)

RECURSIVE KeyBefore(_, _, _)
\* the order of two keys: tuples compared element by element
KeyBefore(ka, kb, i) ==
    IF i > Len(ka) \/ i > Len(kb) THEN Len(ka) < Len(kb)
    ELSE IF ElemLess(ka[i], kb[i]) THEN TRUE
    ELSE IF ElemLess(kb[i], ka[i]) THEN FALSE
    ELSE KeyBefore(ka, kb, i + 1)

\* (self._ordering_key(a), a) < (self._ordering_key(b), b)
HeapLess(g, a, b) ==
    KeyBefore(SortKey(a, IndexOf(g.nodes, a)), SortKey(b, IndexOf(g.nodes, b)), 1)

RECURSIVE HeapOrder(_, _, _)
\* the loop of topological_order: the heap holds the nodes whose in-degree
\* has dropped to zero, heappop takes the smallest
HeapOrder(g, order, rest) ==
    IF ZeroIndegree(g, rest, Range(order)) = {} THEN order
    ELSE HeapOrder(g,
            Append(order, CHOOSE n \in ZeroIndegree(g, rest, Range(order)) :
                        \A m \in ZeroIndegree(g, rest, Range(order)) \ {n} :
                            HeapLess(g, n, m)),
            rest \ {CHOOSE n \in ZeroIndegree(g, rest, Range(order)) :
                        \A m \in ZeroIndegree(g, rest, Range(order)) \ {n} :
                            HeapLess(g, n, m)})

\* graphs of up to MaxNodes nodes of the pool in any insertion order, with
\* any edges among them (self loops and cycles included)
NodeLists == UNION {Orders(S) : S \in {T \in SUBSET IdPool : Cardinality(T) <= MaxNodes}}
Graphs == UNION {{[nodes |-> o, rev |-> r] : r \in [Range(o) -> SUBSET Range(o)]} :
                    o \in NodeLists}

InitSort ==
    /\ NoPipeline
    /\ arg \in Graphs
    /\ res = NoOrder

\* DependencyGraph.topological_order
SortedOrder ==
    /\ ~res.done
    /\ res' = [done |-> TRUE,
               ok |-> Len(HeapOrder(arg, <<>>, Range(arg.nodes))) = Len(arg.nodes),
               order |-> HeapOrder(arg, <<>>, Range(arg.nodes))]
    /\ UNCHANGED <<pipeVars, arg>>

NextSort == SortedOrder

SpecSort == InitSort /\ [][NextSort]_vars

\* the nodes whose dependencies are all among the first k of the order
ReadyAfter(k) ==
    {n \in Range(arg.nodes) \ {res.order[j] : j \in 1..k} :
        arg.rev[n] \subseteq {res.order[j] : j \in 1..k}}

\* the number in s1, s2, s10 and s01
NumberOf(id) ==
    CASE id = "s1" -> 1 [] id = "s2" -> 2 [] id = "s10" -> 10 [] id = "s01" -> 1
      [] OTHER -> 0

\* o is a topological order of the graph
ValidOrder(o) ==
    \A i \in 1..Len(o) : arg.rev[o[i]] \subseteq {o[j] : j \in 1..(i - 1)}

\* the first place where two orders differ, 0 when they are the same
FirstDifference(o, p) ==
    IF o = p THEN 0 ELSE CHOOSE i \in 1..Len(o) : o[i] # p[i] /\ \A j \in 1..(i - 1) : o[j] = p[j]

\* C37: topological_order emits at every step, among the nodes whose
\* dependencies have all been emitted, the one with the smallest key,
\* where numbers compare as numbers (s1 < s2 < s10) and equal keys by
\* insertion order; the result is the smallest topological order.
C37_SmallestReadyFirst ==
    (res.done /\ res.ok) =>
        /\ \A k \in 1..Len(res.order) :
            /\ res.order[k] \in ReadyAfter(k - 1)
            /\ \A m \in ReadyAfter(k - 1) \ {res.order[k]} :
                /\ HeapLess(arg, res.order[k], m)
                /\ {res.order[k], m} \subseteq {"s1", "s2", "s10", "s01"} =>
                    \/ NumberOf(res.order[k]) < NumberOf(m)
                    \/ /\ NumberOf(res.order[k]) = NumberOf(m)
                       /\ IndexOf(arg.nodes, res.order[k]) < IndexOf(arg.nodes, m)
        /\ \A o \in Orders(Range(arg.nodes)) :
            (ValidOrder(o) /\ o # res.order) =>
                HeapLess(arg, res.order[FirstDifference(res.order, o)],
                         o[FirstDifference(res.order, o)])

C37_Witness ==
    /\ res.done /\ res.ok
    /\ arg.nodes = <<"s10", "s2", "s01">>
    /\ arg.rev = [n \in {"s10", "s2", "s01"} |-> {}]
    /\ res.order = <<"s01", "s2", "s10">>

\* C39: a handler invocation enqueues at most one queue message;
\* diagram_render enqueues at most one finalize_ready message per processed
\* message, also when an error occurs after the success-path enqueue.
C39_OneMessagePerInvocation ==
    /\ Len(res.sends) <= 1
    /\ res.last = "diagram_render" =>
        Cardinality({i \in 1..Len(res.sends) : res.sends[i].q = "finalize_ready"}) <= 1

(***************************************************************************)
(* The status table of one job: record(payload) writes the row "latest"    *)
(* and a history row, latest() reads the former and timeline() the latter. *)
(* Timestamps are in microseconds, as in the row key.                      *)
(***************************************************************************)
MaxTs == 3
MaxRecords == 3
StatusStages == {"REVIEW_START", "WRITE_DONE"}
StatusEvents == [ts : 1..MaxTs, stage : StatusStages, message : {"a", "b"}]
NoRow == [ts |-> 0, stage |-> "none", message |-> "none"]

\* the order of the stage labels as strings
StageRank(stage) == IF stage = "REVIEW_START" THEN 1 ELSE 2

\* f"{int(ts * 1_000_000):020d}_{stage_label}": rows sort by the padded
\* number, then by the label
_history_row_key(ts, stage) == <<ts, StageRank(stage)>>

\* upsert_entity(mode="replace") of a history row
upsert(history, key, entity) ==
    {r \in history : r.key # key} \cup {[key |-> key, entity |-> entity]}

\* StatusTableStore.record: the row "latest" is replaced, then the history
\* row of the key is replaced
record(table, payload) ==
    [latest |-> payload,
     history |-> upsert(table.history, _history_row_key(payload.ts, payload.stage), payload)]

RowKeyLess(a, b) == a[1] < b[1] \/ (a[1] = b[1] /\ a[2] < b[2])

RECURSIVE SortedRows(_)
\* sorted(entities, key=lambda e: e["RowKey"])
SortedRows(rows) ==
    IF rows = {} THEN <<>>
    ELSE <<(CHOOSE r \in rows : \A o \in rows \ {r} : RowKeyLess(r.key, o.key)).entity>>
         \o SortedRows(rows \ {CHOOSE r \in rows : \A o \in rows \ {r} : RowKeyLess(r.key, o.key)})

\* StatusTableStore.timeline
timeline(table) == SortedRows(table.history)

InitStatus ==
    /\ NoPipeline
    /\ arg = [job_id |-> "j1"]
    /\ res = [table |-> [latest |-> NoRow, history |-> {}], recorded |-> <<>>]

\* one status event arrives and is recorded
Record ==
    /\ Len(res.recorded) < MaxRecords
    /\ \E payload \in StatusEvents :
        res' = [table |-> record(res.table, payload),
                recorded |-> Append(res.recorded, payload)]
    /\ UNCHANGED <<pipeVars, arg>>

NextStatus == Record

SpecStatus == InitStatus /\ [][NextStatus]_vars

\* C40: after any sequence of record calls, in whatever order the events
\* arrive, latest() is the recorded event with the greatest timestamp and
\* the last element of timeline(), and timeline() has one entry per
\* recorded event in ascending order of timestamp.
C40_LatestIsNewestOfTimeline ==
    res.recorded # <<>> =>
        /\ res.table.latest \in Range(res.recorded)
        /\ \A i \in 1..Len(res.recorded) : res.recorded[i].ts <= res.table.latest.ts
        /\ res.table.latest = timeline(res.table)[Len(timeline(res.table))]
        /\ Len(timeline(res.table)) = Len(res.recorded)
        /\ \A i \in 1..Len(res.recorded) :
            \E j \in 1..Len(timeline(res.table)) : timeline(res.table)[j] = res.recorded[i]
        /\ \A i, j \in 1..Len(timeline(res.table)) :
            i < j => timeline(res.table)[i].ts <= timeline(res.table)[j].ts

====
